---- MODULE Spec2Model ----
(***************************************************************************)
(* Lifecycle reconcilers of linstor-gateway (pkg/nfs, pkg/nvmeof).         *)
(*                                                                         *)
(* Two external backends hold all mutable state: the HA Config Store       *)
(* (drbd-reactor promoter configurations, `configs`) and the storage       *)
(* controller (resource definitions with their volume definitions, `rds`,  *)
(* and the promotion state of the placed resources, `inUse`).  Every       *)
(* reconciler operation is a sequence of external calls; one action of     *)
(* the model is one external call together with the local code that        *)
(* follows it up to the next call.                                         *)
(*                                                                         *)
(* Spec runs the reconcilers from empty backends, SpecDeployed from        *)
(* backends that hold one deployed endpoint, SpecCLI runs the CLI loop     *)
(* over several targets.  SpecLifecycle adds fairness of the caller to     *)
(* the waiting operations, SpecTwin runs the two reconcilers side by       *)
(* side, SpecConcurrent interleaves the calls of two callers.              *)
(***************************************************************************)
EXTENDS Integers, Sequences, FiniteSets, TLC

(***************************************************************************)
(* Bounds of the model.                                                    *)
(***************************************************************************)
MaxOps == 2        \* operations invoked in one behaviour
MaxFaults == 1     \* external calls that fail with a transport error
MaxPolls == 2      \* unsuccessful polls before the 30 s deadline fires

(***************************************************************************)
(* Program constants.                                                      *)
(***************************************************************************)
clusterPrivateVolumeSizeKiB == 65536

Procs == {1, 2}
SeqProcs == {1}

Kinds == {"nfs", "nvmeof"}
\* The identities operations are invoked on: two NFS exports, one NVMe-oF
\* subsystem.  The storage resource of an identity carries its name.
Targets == {[kind |-> "nfs", name |-> "a"], [kind |-> "nfs", name |-> "b"],
            [kind |-> "nvmeof", name |-> "c"]}
RNames == {t.name : t \in Targets}
\* The order in which the HA Config Store lists its objects.
IDOrder == <<[kind |-> "nfs", name |-> "a"], [kind |-> "nfs", name |-> "b"],
             [kind |-> "nvmeof", name |-> "c"]>>

Vol(n, s) == [Number |-> n, SizeKiB |-> s]
VolNumbers == {0, 1, 2}
Sizes == {1, 2}
\* Volume lists a caller passes to Create.
CreateRequests == {<<Vol(1, 1)>>, <<Vol(1, 2)>>, <<Vol(0, 1)>>, <<Vol(1, 1), Vol(2, 2)>>}

NoCfg == [some |-> FALSE]
NoRD == [exists |-> FALSE, vols |-> {}]
NoSnap == [some |-> FALSE, files |-> {}, vds |-> <<>>, res |-> <<>>]
NoDesc == [some |-> FALSE]
NoPath == [none |-> TRUE]
NoStatus == [Service |-> "unset", Volumes |-> <<>>]

MutatingCalls == {"EnsureResource", "EnsureConfig", "AttachConfig", "DetachConfig",
                  "DeleteConfig", "DeleteResourceDefinition", "DeleteVolumeDefinition"}
ErrorOutcomes == {"validation", "conflict", "backend", "decode", "timeout", "panic"}

(***************************************************************************)
(* Sequence helpers.                                                       *)
(***************************************************************************)
Range(s) == {s[i] : i \in DOMAIN s}
Numbers(vs) == [i \in DOMAIN vs |-> vs[i].Number]
RemoveAt(s, i) == [j \in 1..(Len(s) - 1) |-> IF j < i THEN s[j] ELSE s[j + 1]]
RECURSIVE SortedVols(_)
SortedVols(S) ==
    IF S = {} THEN <<>>
    ELSE LET m == CHOOSE v \in S : \A w \in S : v.Number <= w.Number
         IN <<m>> \o SortedVols(S \ {m})
RECURSIVE SelectIdx(_, _, _)
\* indices i >= from of s, ascending, kept as a sequence
SelectIdx(s, from, keep) ==
    IF from > Len(s) THEN <<>>
    ELSE (IF from \in keep THEN <<s[from]>> ELSE <<>>) \o SelectIdx(s, from + 1, keep)

VARIABLES
    configs,   \* HA Config Store: identifier -> configuration object or NoCfg
    rds,       \* storage controller: resource name -> resource definition
    inUse,     \* storage controller: resource name -> promoted on some node
    pc,        \* per invocation: the external call it is about to issue
    op,        \* per invocation: the operation invoked
    tgt,       \* per invocation: the identity it was invoked on
    arg,       \* per invocation: volumes passed (Create, AddVolume, DeleteVolume)
    loc,       \* per invocation: local variables of the running function
    stack,     \* per invocation: enclosing calls (Create > Start > Get)
    calls,     \* per invocation: external calls issued so far, in order
    out,       \* per invocation: outcome once returned
    ret,       \* per invocation: Descriptors returned (<<>> is nil)
    pre,       \* per invocation: backend contents when it was invoked
    last,      \* per caller: the operation completed before the current one
    nOps,      \* operations invoked so far
    faults,    \* transport errors injected so far
    cli        \* the running CLI command over several targets, if any

vars == <<configs, rds, inUse, pc, op, tgt, arg, loc, stack, calls, out, ret,
          pre, last, nOps, faults, cli>>
backend == <<configs, rds, inUse>>

(***************************************************************************)
(* HA Config Store (package reactor) and storage controller (package       *)
(* linstorcontrol): contents read by the reconcilers.                      *)
(***************************************************************************)
IDs == Targets
\* fmt.Sprintf(IDFormat, name)
ConfigID(k, n) == [kind |-> k, name |-> n]
\* the service agent a reconciler's configuration starts
AgentOf(k) == IF k = "nfs" THEN "ocf:heartbeat:nfsserver" ELSE "ocf:heartbeat:nvmet-subsystem"
Nodes == <<"n1", "n2">>

\* reactor.FindConfig: the object stored under id (NoCfg when absent) and its path
FindConfig(id) == [cfg |-> configs[id], path |-> IF configs[id].some THEN id ELSE NoPath]
\* reactor.ListConfigs: every stored object, in the store's order
ListConfigs == SelectIdx([i \in DOMAIN IDOrder |-> configs[IDOrder[i]]], 1,
                         {i \in DOMAIN IDOrder : configs[IDOrder[i]].some})
\* configuration files attached to resource definition r
Files(r) == {id \in IDs : configs[id].some /\ configs[id].attached /\ id.name = r}
\* per-node placement records of resource r: promotion and volume list
ResourcesOf(r, rd) ==
    IF ~rd.exists THEN <<>>
    ELSE [j \in DOMAIN Nodes |->
            [InUse |-> (j = 1 /\ inUse[r]), Volumes |-> Numbers(SortedVols(rd.vols))]]
Resources(r) == ResourcesOf(r, rds[r])
\* what the storage controller reports about resource r with definition rd
DeployedOf(r, rd) == [some |-> TRUE, files |-> Files(r), vds |-> SortedVols(rd.vols),
                      res |-> ResourcesOf(r, rd)]
Deployed(r) == DeployedOf(r, rds[r])
\* cfg.DeployedResources: fails when the resource definition is gone
DeployedResources(cfg) == IF rds[cfg.id.name].exists THEN Deployed(cfg.id.name) ELSE NoSnap

\* common.AnyResourcesInUse / common.NoResourcesInUse
AnyResourcesInUse(res) == \E j \in DOMAIN res : res[j].InUse
NoResourcesInUse(res) == ~AnyResourcesInUse(res)

(***************************************************************************)
(* Status Aggregator and Config <-> Descriptor Translator.                 *)
(***************************************************************************)
\* linstorcontrol.StatusFromResources(path, resourceDefinition, resources)
StatusFromResources(path, snap) ==
    [Service |-> IF snap.res = <<>> THEN "unknown"
                 ELSE IF AnyResourcesInUse(snap.res) THEN "started"
                 ELSE IF path \in snap.files THEN "starting"
                 ELSE "stopped",
     Volumes |-> IF snap.res = <<>> THEN <<>> ELSE snap.res[1].Volumes]

Descriptor(n, vs) == [some |-> TRUE, Name |-> n, Volumes |-> vs, Status |-> NoStatus]
WithStatus(d, st) == [d EXCEPT !.Status = st]

\* variant: every deployed volume definition is listed, for either kind
DescriptorVolumesAll(k, vds) == vds

\* the volumes a Descriptor of kind k lists for the deployed volume definitions:
\* the NFS Descriptor holds the exported volumes only, the NVMe-oF Descriptor
\* holds the cluster-private volume as its first entry
DescriptorVolumes(k, vds) ==
    IF k = "nfs" THEN SelectIdx(vds, 1, {i \in DOMAIN vds : vds[i].Number # 0}) ELSE vds

\* FromPromoter(cfg, resourceDefinition, volumeDefinitions): a decode error
\* when cfg does not hold the service agent of this endpoint type; the
\* volumes are those of the volume definitions handed in (none for nil)
FromPromoter(k, cfg, snap) ==
    IF cfg.agent # AgentOf(k) THEN NoDesc
    ELSE Descriptor(cfg.id.name, DescriptorVolumes(k, snap.vds))

\* rsc.ToPromoter(deployment): attached is kept by the store, see EnsureConfig
ToPromoter(k, d, res) ==
    [some |-> TRUE, id |-> ConfigID(k, d.Name), agent |-> AgentOf(k),
     vols |-> IF k = "nfs" THEN <<0>> \o Numbers(d.Volumes) ELSE Numbers(d.Volumes)]

\* rsc.Matches(deployedCfg): field by field, Status left out
Matches(rsc, deployed) == rsc.Name = deployed.Name /\ rsc.Volumes = deployed.Volumes

\* rsc.Valid(): volume numbers unique and non-negative; number 0 is reserved
\* for the cluster-private volume, which only the NVMe-oF list holds (first)
Valid(k, vs) ==
    /\ \A i, j \in DOMAIN vs : i # j => vs[i].Number # vs[j].Number
    /\ \A i \in DOMAIN vs : vs[i].Number >= 0 /\ vs[i].SizeKiB > 0
    /\ k = "nfs" => \A i \in DOMAIN vs : vs[i].Number # 0

\* common.ClusterPrivateVolume()
ClusterPrivateVolume == Vol(0, clusterPrivateVolumeSizeKiB)

(***************************************************************************)
(* linstorcontrol.EnsureResource(res, mayExist): idempotent                *)
(* create-or-reconcile.  EnsureOK says whether it succeeds on the current  *)
(* storage contents, EnsureVols the volume definitions it leaves.          *)
(***************************************************************************)
EnsureMissing(r, vs) == {v \in Range(vs) : \A w \in rds[r].vols : w.Number # v.Number}
EnsureOK(r, vs, mayExist) ==
    \/ ~rds[r].exists
    \/ /\ \A v \in Range(vs), w \in rds[r].vols : v.Number = w.Number => v.SizeKiB = w.SizeKiB
       /\ mayExist \/ EnsureMissing(r, vs) = {}
EnsureVols(r, vs) == IF rds[r].exists THEN rds[r].vols \cup EnsureMissing(r, vs) ELSE Range(vs)

\* reactor.EnsureConfig: upsert; the attachment of an existing object is kept
EnsureConfig(cfg) ==
    [configs EXCEPT ![cfg.id] = [some |-> TRUE, id |-> cfg.id, agent |-> cfg.agent,
                                 vols |-> cfg.vols,
                                 attached |-> IF @.some THEN @.attached ELSE FALSE]]

(***************************************************************************)
(* Invocations.                                                            *)
(***************************************************************************)
NoTarget == [kind |-> "none", name |-> "none"]
NoLoc == [cfg |-> NoCfg, path |-> NoPath, snap |-> NoSnap, desc |-> NoDesc,
          status |-> NoStatus, gcfg |-> NoCfg, gpath |-> NoPath, polls |-> 0,
          idx |-> 0, list |-> <<>>, acc |-> <<>>]
\* what a caller can tell of the backends when it invokes an operation
Observed == [configs |-> configs, rds |-> rds, inUse |-> inUse, faults |-> faults]
NoOp == [op |-> "none", tgt |-> NoTarget, arg |-> <<>>, out |-> "none", ret |-> <<>>,
         fresh |-> FALSE]
AddRequests == {Vol(1, 1), Vol(1, 2), Vol(2, 2), Vol(0, 1), Vol(-1, 1)}
OpsOf(k) == {"Get", "Create", "Start", "Stop", "Delete", "DeleteVolume"}
              \cup (IF k = "nvmeof" THEN {"AddVolume"} ELSE {})
ArgsOf(o) == CASE o = "Create" -> CreateRequests
               [] o = "AddVolume" -> {<<v>> : v \in AddRequests}
               [] o = "DeleteVolume" -> {<<n>> : n \in VolNumbers}
               [] OTHER -> {<<>>}
Entry(o, k) == CASE o = "Create" -> IF k = "nfs" THEN "Create.list" ELSE "Create.find"
                 [] o = "Delete" -> "Delete.config"
                 [] o = "List" -> "List.list"
                 [] OTHER -> o \o ".find"

\* no CLI command is running
NoCLI == [pc |-> "none", cmd |-> "none", args |-> <<>>, i |-> 0, allErrs |-> <<>>,
          tried |-> <<>>, result |-> [nil |-> TRUE, errors |-> <<>>]]
Init ==
    /\ configs = [id \in IDs |-> NoCfg]
    /\ rds = [r \in RNames |-> NoRD]
    /\ inUse = [r \in RNames |-> FALSE]
    /\ pc = [p \in Procs |-> "idle"]
    /\ op = [p \in Procs |-> "none"]
    /\ tgt = [p \in Procs |-> NoTarget]
    /\ arg = [p \in Procs |-> <<>>]
    /\ loc = [p \in Procs |-> NoLoc]
    /\ stack = [p \in Procs |-> <<>>]
    /\ calls = [p \in Procs |-> <<>>]
    /\ out = [p \in Procs |-> "none"]
    /\ ret = [p \in Procs |-> <<>>]
    /\ last = [p \in Procs |-> NoOp]
    /\ nOps = 0
    /\ faults = 0
    /\ cli = NoCLI
    /\ pre = [p \in Procs |-> Observed]

\* a caller invokes operation o of the reconciler of t.kind
Begin(p, o, t, a) ==
    /\ pc[p] \in {"idle", "done"}
    /\ nOps < MaxOps
    /\ nOps' = nOps + 1
    /\ last' = [last EXCEPT ![p] = IF pc[p] = "done"
                   THEN [op |-> op[p], tgt |-> tgt[p], arg |-> arg[p], out |-> out[p],
                         ret |-> ret[p],
                         fresh |-> /\ tgt[p] \in Targets
                                   /\ ~pre[p].configs[tgt[p]].some
                                   /\ ~pre[p].rds[tgt[p].name].exists]
                   ELSE @]
    /\ pc' = [pc EXCEPT ![p] = Entry(o, t.kind)]
    /\ op' = [op EXCEPT ![p] = o]
    /\ tgt' = [tgt EXCEPT ![p] = t]
    /\ arg' = [arg EXCEPT ![p] = a]
    /\ loc' = [loc EXCEPT ![p] = NoLoc]
    /\ stack' = [stack EXCEPT ![p] = <<>>]
    /\ calls' = [calls EXCEPT ![p] = <<>>]
    /\ out' = [out EXCEPT ![p] = "none"]
    /\ ret' = [ret EXCEPT ![p] = <<>>]
    /\ pre' = [pre EXCEPT ![p] = Observed]
    /\ UNCHANGED <<backend, faults, cli>>

Invoke(p) ==
    \/ \E t \in Targets : \E o \in OpsOf(t.kind) : \E a \in ArgsOf(o) : Begin(p, o, t, a)
    \/ \E k \in Kinds : Begin(p, "List", [kind |-> k, name |-> "*"], <<>>)

(***************************************************************************)
(* Control flow shared by the steps.                                       *)
(***************************************************************************)
Frame == UNCHANGED <<op, tgt, arg, pre, last, nOps, cli>>
Log(p, c) == calls' = [calls EXCEPT ![p] = Append(@, c)]
Goto(p, l, newloc) ==
    /\ pc' = [pc EXCEPT ![p] = l]
    /\ loc' = [loc EXCEPT ![p] = newloc]
    /\ UNCHANGED <<out, ret, stack>>
\* the invoked operation returns outcome o and Descriptors r to the caller; of
\* its local variables only the service state st it computed stays observable
FinishAt(p, o, r, st) ==
    /\ pc' = [pc EXCEPT ![p] = "done"]
    /\ out' = [out EXCEPT ![p] = o]
    /\ ret' = [ret EXCEPT ![p] = r]
    /\ loc' = [loc EXCEPT ![p] = [NoLoc EXCEPT !.status = st]]
    /\ stack' = [stack EXCEPT ![p] = <<>>]
Finish(p, o, r) == FinishAt(p, o, r, loc[p].status)
\* function f calls a function whose first external call is l
\* (a wait context of f has ended by then)
Call(p, f, l) ==
    /\ pc' = [pc EXCEPT ![p] = l]
    /\ stack' = [stack EXCEPT ![p] = Append(@, f)]
    /\ loc' = [loc EXCEPT ![p].polls = 0]
    /\ UNCHANGED <<out, ret>>
\* an external call fails with a transport error; every caller wraps and returns it
Fault(p) ==
    /\ faults < MaxFaults
    /\ faults' = faults + 1
    /\ Finish(p, "backend", <<>>)
    /\ UNCHANGED backend
NoFault == UNCHANGED faults
Me(p) == ConfigID(tgt[p].kind, tgt[p].name)

(***************************************************************************)
(* Get.                                                                    *)
(***************************************************************************)
\* Create's last lines, run when its call of Start returned without error:
\* the Status is computed from what EnsureResource returned before the attach
CreateReturn(p) ==
    Finish(p, "ok", <<WithStatus(loc[p].desc, StatusFromResources(loc[p].path, loc[p].snap))>>)
\* Get or Start returns (o, r) without error: Start, Stop and DeleteVolume
\* return it as their own result, Create drops it
Return(p, o, r) ==
    IF "Create" \in Range(stack[p]) THEN CreateReturn(p) ELSE Finish(p, o, r)

GetFind(p) ==
    /\ pc[p] = "Get.find"
    /\ Frame
    /\ Log(p, "FindConfig")
    /\ \/ /\ NoFault
          /\ UNCHANGED backend
          /\ LET f == FindConfig(Me(p))
             IN IF ~f.cfg.some THEN Return(p, "absent", <<>>)
                ELSE Goto(p, "Get.deployed", [loc[p] EXCEPT !.gcfg = f.cfg, !.gpath = f.path])
       \/ Fault(p)

GetDeployed(p) ==
    /\ pc[p] = "Get.deployed"
    /\ Frame
    /\ Log(p, "DeployedResources")
    /\ \/ /\ NoFault
          /\ UNCHANGED backend
          /\ LET snap == DeployedResources(loc[p].gcfg)
                 d == FromPromoter(tgt[p].kind, loc[p].gcfg, snap)
             IN IF ~snap.some THEN Finish(p, "backend", <<>>)
                ELSE IF ~d.some THEN Finish(p, "decode", <<>>)
                ELSE Return(p, "ok", <<WithStatus(d, StatusFromResources(loc[p].gpath, snap))>>)
       \/ Fault(p)

(***************************************************************************)
(* Create.                                                                 *)
(***************************************************************************)
\* the volume list of rsc when Valid() is called on it
CreateVolumes(k, a) == IF k = "nvmeof" THEN <<ClusterPrivateVolume>> \o a ELSE a
\* the volume list handed to EnsureResource
CreateEnsureVolumes(k, a) == <<ClusterPrivateVolume>> \o a
\* variant: the comparison of the identifiers is inverted
NFSCollisionSameID(cs, id) ==
    \E i \in DOMAIN cs : cs[i].id = id /\ cs[i].agent = "ocf:heartbeat:nfsserver"
\* another identity's object starts the NFS server agent
NFSCollision(cs, id) ==
    \E i \in DOMAIN cs : cs[i].id # id /\ cs[i].agent = "ocf:heartbeat:nfsserver"

\* NFS only: FillDefaults, Valid, ListConfigs and the scan for a second NFS server
CreateList(p) ==
    /\ pc[p] = "Create.list"
    /\ Frame
    /\ IF ~Valid(tgt[p].kind, CreateVolumes(tgt[p].kind, arg[p]))
       THEN Finish(p, "validation", <<>>) /\ UNCHANGED <<calls, backend, faults>>
       ELSE /\ Log(p, "ListConfigs")
            /\ \/ /\ NoFault
                  /\ UNCHANGED backend
                  /\ IF NFSCollision(ListConfigs, Me(p)) THEN Finish(p, "conflict", <<>>)
                     ELSE Goto(p, "Create.find", loc[p])
               \/ Fault(p)

\* variant: the lookup result is not consulted, every Create deploys
CreateFindIgnoresExisting(p) ==
    /\ pc[p] = "Create.find"
    /\ Frame
    /\ IF ~Valid(tgt[p].kind, CreateVolumes(tgt[p].kind, arg[p]))
       THEN Finish(p, "validation", <<>>) /\ UNCHANGED <<calls, backend, faults>>
       ELSE /\ Log(p, "FindConfig")
            /\ \/ /\ NoFault
                  /\ UNCHANGED backend
                  /\ LET f == FindConfig(Me(p))
                     IN Goto(p, "Create.ensureRes",
                             [loc[p] EXCEPT !.cfg = f.cfg, !.path = f.path,
                                  !.desc = Descriptor(tgt[p].name,
                                                      CreateVolumes(tgt[p].kind, arg[p]))])
               \/ Fault(p)
\* variant: the request is validated after the lookup
CreateFindValidatesLate(p) ==
    /\ pc[p] = "Create.find"
    /\ Frame
    /\ Log(p, "FindConfig")
    /\ \/ /\ NoFault
          /\ UNCHANGED backend
          /\ IF ~Valid(tgt[p].kind, CreateVolumes(tgt[p].kind, arg[p]))
             THEN Finish(p, "validation", <<>>)
             ELSE LET f == FindConfig(Me(p))
                  IN Goto(p, IF f.cfg.some THEN "Create.deployed" ELSE "Create.ensureRes",
                          [loc[p] EXCEPT !.cfg = f.cfg, !.path = f.path,
                               !.desc = Descriptor(tgt[p].name,
                                                   CreateVolumes(tgt[p].kind, arg[p]))])
       \/ Fault(p)
\* FindConfig for the requested identity (NVMe-oF: after prepending the
\* cluster-private volume and Valid)
CreateFind(p) ==
    /\ pc[p] = "Create.find"
    /\ Frame
    /\ IF ~Valid(tgt[p].kind, CreateVolumes(tgt[p].kind, arg[p]))
       THEN Finish(p, "validation", <<>>) /\ UNCHANGED <<calls, backend, faults>>
       ELSE /\ Log(p, "FindConfig")
            /\ \/ /\ NoFault
                  /\ UNCHANGED backend
                  /\ LET f == FindConfig(Me(p))
                     IN Goto(p, IF f.cfg.some THEN "Create.deployed" ELSE "Create.ensureRes",
                             [loc[p] EXCEPT !.cfg = f.cfg, !.path = f.path,
                                  !.desc = Descriptor(tgt[p].name,
                                                      CreateVolumes(tgt[p].kind, arg[p]))])
               \/ Fault(p)

\* variant: the existing Descriptor is returned without the comparison
CreateExistingIgnoresMismatch(p, d, snap) ==
    Finish(p, "ok", <<WithStatus(d, StatusFromResources(loc[p].path, snap))>>)

\* rsc.Matches(deployedCfg) decides between the conflict and the existing Descriptor
CreateExisting(p, d, snap) ==
    IF ~Matches(loc[p].desc, d) THEN Finish(p, "conflict", <<>>)
    ELSE Finish(p, "ok", <<WithStatus(d, StatusFromResources(loc[p].path, snap))>>)

\* an object exists under the identity: DeployedResources and FromPromoter
CreateDeployed(p) ==
    /\ pc[p] = "Create.deployed"
    /\ Frame
    /\ Log(p, "DeployedResources")
    /\ \/ /\ NoFault
          /\ UNCHANGED backend
          /\ LET snap == DeployedResources(loc[p].cfg)
                 d == FromPromoter(tgt[p].kind, loc[p].cfg, snap)
             IN IF ~snap.some THEN Finish(p, "backend", <<>>)
                ELSE IF ~d.some THEN Finish(p, "decode", <<>>)
                ELSE CreateExisting(p, d, snap)
       \/ Fault(p)

\* variant: EnsureResource is called with mayExist true, as AddVolume calls it
CreateEnsureResMayExtend(p) ==
    /\ pc[p] = "Create.ensureRes"
    /\ Frame
    /\ Log(p, "EnsureResource")
    /\ \/ /\ NoFault
          /\ LET r == tgt[p].name
                 vs == CreateEnsureVolumes(tgt[p].kind, arg[p])
                 rd == [exists |-> TRUE, vols |-> EnsureVols(r, vs)]
             IN IF ~EnsureOK(r, vs, TRUE)
                THEN Finish(p, "backend", <<>>) /\ UNCHANGED backend
                ELSE /\ rds' = [rds EXCEPT ![r] = rd]
                     /\ UNCHANGED <<configs, inUse>>
                     /\ Goto(p, "Create.ensureCfg", [loc[p] EXCEPT !.snap = DeployedOf(r, rd)])
       \/ Fault(p)
\* no object exists: EnsureResource(volume 0 + requested volumes, false)
CreateEnsureRes(p) ==
    /\ pc[p] = "Create.ensureRes"
    /\ Frame
    /\ Log(p, "EnsureResource")
    /\ \/ /\ NoFault
          /\ LET r == tgt[p].name
                 vs == CreateEnsureVolumes(tgt[p].kind, arg[p])
                 rd == [exists |-> TRUE, vols |-> EnsureVols(r, vs)]
             IN IF ~EnsureOK(r, vs, FALSE)
                THEN Finish(p, "backend", <<>>) /\ UNCHANGED backend
                ELSE /\ rds' = [rds EXCEPT ![r] = rd]
                     /\ UNCHANGED <<configs, inUse>>
                     /\ Goto(p, "Create.ensureCfg", [loc[p] EXCEPT !.snap = DeployedOf(r, rd)])
       \/ Fault(p)

\* variant: a failed EnsureConfig is compensated by deleting the resource definition
CreateEnsureCfgRollsBack(p) ==
    /\ pc[p] = "Create.ensureCfg"
    /\ Frame
    /\ Log(p, "EnsureConfig")
    /\ \/ /\ NoFault
          /\ configs' = EnsureConfig(ToPromoter(tgt[p].kind, loc[p].desc, loc[p].snap.res))
          /\ UNCHANGED <<rds, inUse>>
          /\ Call(p, "Create", "Start.find")
       \/ /\ faults < MaxFaults
          /\ faults' = faults + 1
          /\ Finish(p, "backend", <<>>)
          /\ rds' = [rds EXCEPT ![tgt[p].name] = NoRD]
          /\ UNCHANGED <<configs, inUse>>
\* ToPromoter(deployment), EnsureConfig, then Start
CreateEnsureCfg(p) ==
    /\ pc[p] = "Create.ensureCfg"
    /\ Frame
    /\ Log(p, "EnsureConfig")
    /\ \/ /\ NoFault
          /\ configs' = EnsureConfig(ToPromoter(tgt[p].kind, loc[p].desc, loc[p].snap.res))
          /\ UNCHANGED <<rds, inUse>>
          /\ Call(p, "Create", "Start.find")
       \/ Fault(p)

(***************************************************************************)
(* Start, Stop.                                                            *)
(***************************************************************************)
\* variant: the nil check on cfg is missing
FindOrAbsentUnchecked(p, l) ==
    LET f == FindConfig(Me(p))
    IN Goto(p, l, [loc[p] EXCEPT !.gcfg = f.cfg, !.gpath = f.path])

\* FindConfig of Start and Stop: nil, nil when there is no object
FindOrAbsent(p, l) ==
    LET f == FindConfig(Me(p))
    IN IF ~f.cfg.some THEN Return(p, "absent", <<>>)
       ELSE Goto(p, l, [loc[p] EXCEPT !.gcfg = f.cfg, !.gpath = f.path])

\* one round of common.WaitUntilResourceCondition under the 30 s deadline:
\* the deadline has passed, or the placement of the resource is fetched and
\* the condition evaluated on it
\* (calls records the poll that ends the wait, not the unsuccessful ones)
Wait(p, cond, done) ==
    IF loc[p].polls >= MaxPolls
    THEN Finish(p, "timeout", <<>>) /\ UNCHANGED <<calls, backend, faults>>
    ELSE \/ /\ NoFault
            /\ UNCHANGED backend
            /\ IF cond
               THEN Log(p, "Poll:true") /\ done
               ELSE /\ UNCHANGED calls
                    /\ Goto(p, pc[p], [loc[p] EXCEPT !.polls = @ + 1])
         \/ Log(p, "Poll:error") /\ Fault(p)

StartFind(p) ==
    /\ pc[p] = "Start.find"
    /\ Frame
    /\ Log(p, "FindConfig")
    /\ \/ NoFault /\ UNCHANGED backend /\ FindOrAbsent(p, "Start.attach")
       \/ Fault(p)

StartAttach(p) ==
    /\ pc[p] = "Start.attach"
    /\ Frame
    /\ Log(p, "AttachConfig")
    /\ \/ /\ NoFault
          /\ IF ~configs[Me(p)].some
             THEN Finish(p, "backend", <<>>) /\ UNCHANGED backend
             ELSE /\ configs' = [configs EXCEPT ![Me(p)].attached = TRUE]
                  /\ UNCHANGED <<rds, inUse>>
                  /\ Goto(p, "Start.wait", [loc[p] EXCEPT !.polls = 0])
       \/ Fault(p)

\* variant: the wait context carries no deadline
StartWaitNoDeadline(p) ==
    /\ pc[p] = "Start.wait"
    /\ Frame
    /\ \/ /\ NoFault
          /\ UNCHANGED backend
          /\ IF AnyResourcesInUse(Resources(tgt[p].name))
             THEN Log(p, "Poll:true") /\ Call(p, "Start", "Get.find")
             ELSE UNCHANGED calls /\ Goto(p, pc[p], loc[p])
       \/ Log(p, "Poll:error") /\ Fault(p)
\* variant: Start waits for Stop's condition
StartWaitUnused(p) ==
    /\ pc[p] = "Start.wait"
    /\ Frame
    /\ Wait(p, NoResourcesInUse(Resources(tgt[p].name)), Call(p, "Start", "Get.find"))

StartWait(p) ==
    /\ pc[p] = "Start.wait"
    /\ Frame
    /\ Wait(p, AnyResourcesInUse(Resources(tgt[p].name)), Call(p, "Start", "Get.find"))

StopFind(p) ==
    /\ pc[p] = "Stop.find"
    /\ Frame
    /\ Log(p, "FindConfig")
    /\ \/ NoFault /\ UNCHANGED backend /\ FindOrAbsent(p, "Stop.detach")
       \/ Fault(p)

StopDetach(p) ==
    /\ pc[p] = "Stop.detach"
    /\ Frame
    /\ Log(p, "DetachConfig")
    /\ \/ /\ NoFault
          /\ IF ~configs[Me(p)].some
             THEN Finish(p, "backend", <<>>) /\ UNCHANGED backend
             ELSE /\ configs' = [configs EXCEPT ![Me(p)].attached = FALSE]
                  /\ UNCHANGED <<rds, inUse>>
                  /\ Goto(p, "Stop.wait", [loc[p] EXCEPT !.polls = 0])
       \/ Fault(p)

\* variant: Stop returns the Descriptor without waiting for the demotion
StopWaitSkipped(p) ==
    /\ pc[p] = "Stop.wait"
    /\ Frame
    /\ UNCHANGED <<calls, backend, faults>>
    /\ Call(p, "Stop", "Get.find")
StopWait(p) ==
    /\ pc[p] = "Stop.wait"
    /\ Frame
    /\ Wait(p, NoResourcesInUse(Resources(tgt[p].name)), Call(p, "Stop", "Get.find"))

(***************************************************************************)
(* Delete.                                                                 *)
(***************************************************************************)
\* variant: the configuration object is left in the store
DeleteConfigStepKeepsConfig(p) ==
    /\ pc[p] = "Delete.config"
    /\ Frame
    /\ Log(p, "DeleteConfig")
    /\ \/ /\ NoFault
          /\ UNCHANGED backend
          /\ Goto(p, "Delete.wait", [loc[p] EXCEPT !.polls = 0])
       \/ Fault(p)
\* reactor.DeleteConfig: removes the object (and with it its attachment)
DeleteConfigStep(p) ==
    /\ pc[p] = "Delete.config"
    /\ Frame
    /\ Log(p, "DeleteConfig")
    /\ \/ /\ NoFault
          /\ configs' = [configs EXCEPT ![Me(p)] = NoCfg]
          /\ UNCHANGED <<rds, inUse>>
          /\ Goto(p, "Delete.wait", [loc[p] EXCEPT !.polls = 0])
       \/ Fault(p)

\* variant: the error of the wait is dropped, the definition is deleted anyway
DeleteWaitUnchecked(p) ==
    /\ pc[p] = "Delete.wait"
    /\ Frame
    /\ Log(p, "Poll:true")
    /\ UNCHANGED <<backend, faults>>
    /\ Goto(p, "Delete.rd", [loc[p] EXCEPT !.polls = 0])
DeleteWait(p) ==
    /\ pc[p] = "Delete.wait"
    /\ Frame
    /\ Wait(p, NoResourcesInUse(Resources(tgt[p].name)), Goto(p, "Delete.rd", [loc[p] EXCEPT !.polls = 0]))

\* what the storage controller answers to the deletion of a definition
DeleteAnswer(exists) == IF exists THEN "nil" ELSE "NotFoundError"
\* variant: err != nil
IsFailureStrict(err) == err # "nil"
\* err != nil && err != client.NotFoundError
IsFailure(err) == err # "nil" /\ err # "NotFoundError"

\* ResourceDefinitions.Delete, after the wait
DeleteRD(p) ==
    /\ pc[p] = "Delete.rd"
    /\ Frame
    /\ Log(p, "DeleteResourceDefinition")
    /\ \/ /\ NoFault
          /\ IF IsFailure(DeleteAnswer(rds[tgt[p].name].exists))
             THEN Finish(p, "backend", <<>>) /\ UNCHANGED backend
             ELSE /\ rds' = [rds EXCEPT ![tgt[p].name] = NoRD]
                  /\ inUse' = [inUse EXCEPT ![tgt[p].name] = FALSE]
                  /\ UNCHANGED configs
                  /\ Finish(p, "ok", <<>>)
       \/ Fault(p)

(***************************************************************************)
(* AddVolume (NVMe-oF).                                                    *)
(***************************************************************************)
\* index of the first volume of vs numbered n, 0 when there is none
IndexOf(vs, n) ==
    IF \E i \in DOMAIN vs : vs[i].Number = n
    THEN CHOOSE i \in DOMAIN vs : vs[i].Number = n /\ \A j \in 1..(i - 1) : vs[j].Number # n
    ELSE 0
\* variant: the volume list is left in insertion order
SortByNumberSkipped(vs) == vs
\* sort.Slice by Number
SortByNumber(vs) == SortedVols(Range(vs))

AddVolumeFind(p) ==
    /\ pc[p] = "AddVolume.find"
    /\ Frame
    /\ Log(p, "FindConfig")
    /\ \/ /\ NoFault
          /\ UNCHANGED backend
          /\ LET f == FindConfig(Me(p))
             IN IF ~f.cfg.some THEN Finish(p, "absent", <<>>)
                ELSE Goto(p, "AddVolume.deployed", [loc[p] EXCEPT !.cfg = f.cfg, !.path = f.path])
       \/ Fault(p)

\* variant: the sizes of the present and the requested volume are not compared
AddVolumeGuardNoSizeCheck(p, d, snap) ==
    LET v == arg[p][1]
        i == IndexOf(d.Volumes, v.Number)
        vs == SortByNumber(Append(d.Volumes, v))
        st == StatusFromResources(loc[p].path, snap)
    IN IF i # 0
       THEN Goto(p, "AddVolume.ensureCfg", [loc[p] EXCEPT !.desc = d, !.snap = snap])
       ELSE IF st.Service = "started"
            THEN FinishAt(p, "conflict", <<>>, st)
       ELSE IF ~Valid(tgt[p].kind, vs)
            THEN FinishAt(p, "validation", <<>>, st)
       ELSE Goto(p, "AddVolume.ensureRes",
                 [loc[p] EXCEPT !.desc = [d EXCEPT !.Volumes = vs], !.snap = snap,
                                !.status = st])
\* variant: a missing volume is added whatever the service state
AddVolumeGuardNoStateCheck(p, d, snap) ==
    LET v == arg[p][1]
        i == IndexOf(d.Volumes, v.Number)
        vs == SortByNumber(Append(d.Volumes, v))
        st == StatusFromResources(loc[p].path, snap)
    IN IF i # 0
       THEN IF d.Volumes[i].SizeKiB # v.SizeKiB THEN Finish(p, "conflict", <<>>)
            ELSE Goto(p, "AddVolume.ensureCfg", [loc[p] EXCEPT !.desc = d, !.snap = snap])
       ELSE IF ~Valid(tgt[p].kind, vs)
            THEN FinishAt(p, "validation", <<>>, st)
       ELSE Goto(p, "AddVolume.ensureRes",
                 [loc[p] EXCEPT !.desc = [d EXCEPT !.Volumes = vs], !.snap = snap,
                                !.status = st])

\* the volume is already there (same size), or the service state check
AddVolumeGuard(p, d, snap) ==
    LET v == arg[p][1]
        i == IndexOf(d.Volumes, v.Number)
        vs == SortByNumber(Append(d.Volumes, v))
        st == StatusFromResources(loc[p].path, snap)
    IN IF i # 0
       THEN IF d.Volumes[i].SizeKiB # v.SizeKiB THEN Finish(p, "conflict", <<>>)
            ELSE Goto(p, "AddVolume.ensureCfg", [loc[p] EXCEPT !.desc = d, !.snap = snap])
       ELSE IF st.Service = "started"
            THEN FinishAt(p, "conflict", <<>>, st)
       ELSE IF ~Valid(tgt[p].kind, vs)
            THEN FinishAt(p, "validation", <<>>, st)
       ELSE Goto(p, "AddVolume.ensureRes",
                 [loc[p] EXCEPT !.desc = [d EXCEPT !.Volumes = vs], !.snap = snap,
                                !.status = st])

AddVolumeDeployed(p) ==
    /\ pc[p] = "AddVolume.deployed"
    /\ Frame
    /\ Log(p, "DeployedResources")
    /\ \/ /\ NoFault
          /\ UNCHANGED backend
          /\ LET snap == DeployedResources(loc[p].cfg)
                 d == FromPromoter(tgt[p].kind, loc[p].cfg, snap)
             IN IF ~snap.some THEN Finish(p, "backend", <<>>)
                ELSE IF ~d.some THEN Finish(p, "decode", <<>>)
                ELSE AddVolumeGuard(p, d, snap)
       \/ Fault(p)

\* EnsureResource(deployedCfg.Volumes, true)
AddVolumeEnsureRes(p) ==
    /\ pc[p] = "AddVolume.ensureRes"
    /\ Frame
    /\ Log(p, "EnsureResource")
    /\ \/ /\ NoFault
          /\ LET r == tgt[p].name
                 vs == loc[p].desc.Volumes
                 rd == [exists |-> TRUE, vols |-> EnsureVols(r, vs)]
             IN IF ~EnsureOK(r, vs, TRUE)
                THEN Finish(p, "backend", <<>>) /\ UNCHANGED backend
                ELSE /\ rds' = [rds EXCEPT ![r] = rd]
                     /\ UNCHANGED <<configs, inUse>>
                     /\ Goto(p, "AddVolume.ensureCfg", [loc[p] EXCEPT !.snap = DeployedOf(r, rd)])
       \/ Fault(p)

\* variant: the write is refused when the object is no longer the one read
AddVolumeEnsureCfgVersioned(p) ==
    /\ pc[p] = "AddVolume.ensureCfg"
    /\ Frame
    /\ Log(p, "EnsureConfig")
    /\ \/ /\ NoFault
          /\ IF configs[Me(p)] # loc[p].cfg
             THEN Finish(p, "conflict", <<>>) /\ UNCHANGED backend
             ELSE /\ configs' = EnsureConfig(ToPromoter(tgt[p].kind, loc[p].desc, loc[p].snap.res))
                  /\ UNCHANGED <<rds, inUse>>
                  /\ Finish(p, "ok", <<WithStatus(loc[p].desc,
                                                  StatusFromResources(loc[p].path, loc[p].snap))>>)
       \/ Fault(p)
\* ToPromoter(resources), EnsureConfig, Status
AddVolumeEnsureCfg(p) ==
    /\ pc[p] = "AddVolume.ensureCfg"
    /\ Frame
    /\ Log(p, "EnsureConfig")
    /\ \/ /\ NoFault
          /\ configs' = EnsureConfig(ToPromoter(tgt[p].kind, loc[p].desc, loc[p].snap.res))
          /\ UNCHANGED <<rds, inUse>>
          /\ Finish(p, "ok", <<WithStatus(loc[p].desc,
                                          StatusFromResources(loc[p].path, loc[p].snap))>>)
       \/ Fault(p)

(***************************************************************************)
(* DeleteVolume.                                                           *)
(***************************************************************************)
DeleteVolumeFind(p) ==
    /\ pc[p] = "DeleteVolume.find"
    /\ Frame
    /\ Log(p, "FindConfig")
    /\ \/ /\ NoFault
          /\ UNCHANGED backend
          /\ LET f == FindConfig(Me(p))
             IN IF ~f.cfg.some THEN Finish(p, "absent", <<>>)
                ELSE Goto(p, "DeleteVolume.deployed",
                          [loc[p] EXCEPT !.cfg = f.cfg, !.path = f.path])
       \/ Fault(p)

\* variant: the volume is searched and deleted whatever the service state
DeleteVolumeGuardNoStateCheck(p, d, snap) ==
    LET i == IndexOf(d.Volumes, arg[p][1])
        st == StatusFromResources(loc[p].path, snap)
    IN IF i = 0
       THEN /\ pc' = [pc EXCEPT ![p] = "Get.find"]
            /\ stack' = [stack EXCEPT ![p] = Append(@, "DeleteVolume")]
            /\ loc' = [loc EXCEPT ![p].status = st]
            /\ UNCHANGED <<out, ret>>
       ELSE Goto(p, "DeleteVolume.vd",
                 [loc[p] EXCEPT !.desc = d, !.snap = snap, !.idx = i, !.status = st])

\* the service state check, then the search for the volume in rscCfg.Volumes
DeleteVolumeGuard(p, d, snap) ==
    LET i == IndexOf(d.Volumes, arg[p][1])
        st == StatusFromResources(loc[p].path, snap)
    IN IF st.Service = "started"
       THEN FinishAt(p, "conflict", <<>>, st)
       ELSE IF i = 0
            THEN /\ pc' = [pc EXCEPT ![p] = "Get.find"]
                 /\ stack' = [stack EXCEPT ![p] = Append(@, "DeleteVolume")]
                 /\ loc' = [loc EXCEPT ![p].status = st]
                 /\ UNCHANGED <<out, ret>>
       ELSE Goto(p, "DeleteVolume.vd",
                 [loc[p] EXCEPT !.desc = d, !.snap = snap, !.idx = i, !.status = st])

DeleteVolumeDeployed(p) ==
    /\ pc[p] = "DeleteVolume.deployed"
    /\ Frame
    /\ Log(p, "DeployedResources")
    /\ \/ /\ NoFault
          /\ UNCHANGED backend
          /\ LET snap == DeployedResources(loc[p].cfg)
                 d == FromPromoter(tgt[p].kind, loc[p].cfg, snap)
             IN IF ~snap.some THEN Finish(p, "backend", <<>>)
                ELSE IF ~d.some THEN Finish(p, "decode", <<>>)
                ELSE DeleteVolumeGuard(p, d, snap)
       \/ Fault(p)

\* variant: the entry stays in rscCfg.Volumes
DeleteVolumeVDKeepsEntry(p) ==
    /\ pc[p] = "DeleteVolume.vd"
    /\ Frame
    /\ Log(p, "DeleteVolumeDefinition")
    /\ \/ /\ NoFault
          /\ LET r == tgt[p].name
                 n == arg[p][1]
                 found == \E v \in rds[r].vols : v.Number = n
             IN IF IsFailure(DeleteAnswer(found))
                THEN Finish(p, "backend", <<>>) /\ UNCHANGED backend
                ELSE /\ rds' = [rds EXCEPT ![r].vols = {v \in @ : v.Number # n}]
                     /\ UNCHANGED <<configs, inUse>>
                     /\ Goto(p, "DeleteVolume.ensureCfg", loc[p])
       \/ Fault(p)
\* DeleteVolumeDefinition, then entry idx is cut out of rscCfg.Volumes and out
\* of the volume list of every placement record
DeleteVolumeVD(p) ==
    /\ pc[p] = "DeleteVolume.vd"
    /\ Frame
    /\ Log(p, "DeleteVolumeDefinition")
    /\ \/ /\ NoFault
          /\ LET r == tgt[p].name
                 n == arg[p][1]
                 i == loc[p].idx
                 res == loc[p].snap.res
                 found == \E v \in rds[r].vols : v.Number = n
             IN IF IsFailure(DeleteAnswer(found))
                THEN Finish(p, "backend", <<>>) /\ UNCHANGED backend
                ELSE /\ rds' = [rds EXCEPT ![r].vols = {v \in @ : v.Number # n}]
                     /\ UNCHANGED <<configs, inUse>>
                     /\ IF \E j \in DOMAIN res : i > Len(res[j].Volumes)
                        THEN Finish(p, "panic", <<>>)
                        ELSE Goto(p, "DeleteVolume.ensureCfg",
                                  [loc[p] EXCEPT
                                     !.desc.Volumes = RemoveAt(@, i),
                                     !.snap.res = [j \in DOMAIN res |->
                                         [res[j] EXCEPT !.Volumes = RemoveAt(@, i)]]])
       \/ Fault(p)

\* ToPromoter(resources), EnsureConfig, then Get
DeleteVolumeEnsureCfg(p) ==
    /\ pc[p] = "DeleteVolume.ensureCfg"
    /\ Frame
    /\ Log(p, "EnsureConfig")
    /\ \/ /\ NoFault
          /\ configs' = EnsureConfig(ToPromoter(tgt[p].kind, loc[p].desc, loc[p].snap.res))
          /\ UNCHANGED <<rds, inUse>>
          /\ Call(p, "DeleteVolume", "Get.find")
       \/ Fault(p)

(***************************************************************************)
(* List.                                                                   *)
(***************************************************************************)
\* fmt.Sscanf(cfg.ID, IDFormat, &rsc) parses a name
MatchesIDFormat(k, id) == id.kind = k
\* the first entry at or after from whose identifier matches the template
NextItem(k, list, from) ==
    IF \E i \in from..Len(list) : MatchesIDFormat(k, list[i].id)
    THEN CHOOSE i \in from..Len(list) :
            /\ MatchesIDFormat(k, list[i].id)
            /\ \A j \in from..(i - 1) : ~MatchesIDFormat(k, list[j].id)
    ELSE Len(list) + 1

ListList(p) ==
    /\ pc[p] = "List.list"
    /\ Frame
    /\ Log(p, "ListConfigs")
    /\ \/ /\ NoFault
          /\ UNCHANGED backend
          /\ LET l == ListConfigs
                 i == NextItem(tgt[p].kind, l, 1)
             IN IF i > Len(l) THEN Finish(p, "ok", <<>>)
                ELSE Goto(p, "List.item", [loc[p] EXCEPT !.list = l, !.idx = i])
       \/ Fault(p)

\* one round of the loop for an object of this endpoint type
ListRound(p, snap) ==
    LET cfg == loc[p].list[loc[p].idx]
        d == FromPromoter(tgt[p].kind, cfg, snap)
        acc == IF d.some
               THEN Append(loc[p].acc, WithStatus(d, StatusFromResources(cfg.id, snap)))
               ELSE loc[p].acc
        i == NextItem(tgt[p].kind, loc[p].list, loc[p].idx + 1)
    IN IF i > Len(loc[p].list)
       THEN Finish(p, "ok", acc)
       ELSE Goto(p, "List.item", [loc[p] EXCEPT !.acc = acc, !.idx = i])

\* DeployedResources of the object; a failure is logged and the round goes on
\* with nil for the resource definition, volume definitions and resources
ListItem(p) ==
    /\ pc[p] = "List.item"
    /\ Frame
    /\ Log(p, "DeployedResources")
    /\ UNCHANGED backend
    /\ \/ NoFault /\ ListRound(p, DeployedResources(loc[p].list[loc[p].idx]))
       \/ faults < MaxFaults /\ faults' = faults + 1 /\ ListRound(p, NoSnap)

(***************************************************************************)
(* The HA daemon: it promotes a resource whose configuration is attached   *)
(* and demotes a resource no attached configuration names.                 *)
(***************************************************************************)
Promote(r) ==
    /\ rds[r].exists /\ ~inUse[r] /\ Files(r) # {}
    /\ inUse' = [inUse EXCEPT ![r] = TRUE]
    /\ UNCHANGED <<configs, rds, pc, op, tgt, arg, loc, stack, calls, out, ret, pre,
                   last, nOps, faults, cli>>
Demote(r) ==
    /\ inUse[r] /\ Files(r) = {}
    /\ inUse' = [inUse EXCEPT ![r] = FALSE]
    /\ UNCHANGED <<configs, rds, pc, op, tgt, arg, loc, stack, calls, out, ret, pre,
                   last, nOps, faults, cli>>

Step(p) ==
    \/ GetFind(p) \/ GetDeployed(p)
    \/ CreateList(p) \/ CreateFind(p) \/ CreateDeployed(p)
    \/ CreateEnsureRes(p) \/ CreateEnsureCfg(p)
    \/ StartFind(p) \/ StartAttach(p) \/ StartWait(p)
    \/ StopFind(p) \/ StopDetach(p) \/ StopWait(p)
    \/ DeleteConfigStep(p) \/ DeleteWait(p) \/ DeleteRD(p)
    \/ AddVolumeFind(p) \/ AddVolumeDeployed(p) \/ AddVolumeEnsureRes(p)
    \/ AddVolumeEnsureCfg(p)
    \/ DeleteVolumeFind(p) \/ DeleteVolumeDeployed(p) \/ DeleteVolumeVD(p)
    \/ DeleteVolumeEnsureCfg(p)
    \/ ListList(p) \/ ListItem(p)

Daemon == \E r \in RNames : Promote(r) \/ Demote(r)

\* operations run one at a time, each to completion, beside the HA daemon
Next == (\E p \in SeqProcs : Invoke(p) \/ Step(p)) \/ Daemon

Spec == Init /\ [][Next]_vars

(***************************************************************************)
(* The same reconcilers on backends that already hold one endpoint: what a *)
(* successful Create, or a successful Create and Stop, leaves behind.      *)
(***************************************************************************)
\* the endpoints found deployed: target and the volumes its Create was given
Deployments == {[tgt |-> [kind |-> "nfs", name |-> "a"], vols |-> <<Vol(1, 1), Vol(2, 2)>>],
                [tgt |-> [kind |-> "nvmeof", name |-> "c"], vols |-> <<Vol(2, 2)>>]}
\* the configuration object Create has persisted for d, attached by Start
DeployedConfig(d, started) ==
    LET cfg == ToPromoter(d.tgt.kind,
                          Descriptor(d.tgt.name, CreateVolumes(d.tgt.kind, d.vols)), <<>>)
    IN [some |-> TRUE, id |-> cfg.id, agent |-> cfg.agent, vols |-> cfg.vols,
        attached |-> started]
\* the resource definition EnsureResource has created for d
DeployedDefinition(d) ==
    [exists |-> TRUE, vols |-> Range(CreateEnsureVolumes(d.tgt.kind, d.vols))]

InitDeployed ==
    /\ \E d \in Deployments : \E started \in BOOLEAN :
          /\ configs = [id \in IDs |-> IF id = d.tgt THEN DeployedConfig(d, started) ELSE NoCfg]
          /\ rds = [r \in RNames |-> IF r = d.tgt.name THEN DeployedDefinition(d) ELSE NoRD]
          /\ inUse = [r \in RNames |-> r = d.tgt.name /\ started]
    /\ pc = [p \in Procs |-> "idle"]
    /\ op = [p \in Procs |-> "none"]
    /\ tgt = [p \in Procs |-> NoTarget]
    /\ arg = [p \in Procs |-> <<>>]
    /\ loc = [p \in Procs |-> NoLoc]
    /\ stack = [p \in Procs |-> <<>>]
    /\ calls = [p \in Procs |-> <<>>]
    /\ out = [p \in Procs |-> "none"]
    /\ ret = [p \in Procs |-> <<>>]
    /\ last = [p \in Procs |-> NoOp]
    /\ nOps = 0
    /\ faults = 0
    /\ cli = NoCLI
    /\ pre = [p \in Procs |-> Observed]

\* the caller works on the endpoint it finds deployed: an identity that has a
\* configuration object or a resource definition, or the one of its last call
Known(p, t) == configs[t].some \/ rds[t.name].exists \/ (pc[p] = "done" /\ tgt[p] = t)
InvokeDeployed(p) ==
    \E t \in Targets :
        /\ Known(p, t)
        /\ \/ \E o \in OpsOf(t.kind) : \E a \in ArgsOf(o) : Begin(p, o, t, a)
           \/ Begin(p, "List", [kind |-> t.kind, name |-> "*"], <<>>)

NextDeployed == (\E p \in SeqProcs : InvokeDeployed(p) \/ Step(p)) \/ Daemon

SpecDeployed == InitDeployed /\ [][NextDeployed]_vars

(***************************************************************************)
(* The CLI commands start, stop and delete over several targets.  The      *)
(* reconciler behind cli.Iscsi answers each call with an error or without. *)
(***************************************************************************)
MaxArgs == 3       \* targets given to one CLI command
Commands == {"start", "stop", "delete"}
\* the raw target names of the command line; NewIqn rejects the last one
RawNames == {"iqn.a", "iqn.b", "a"}
NewIqnOK(raw) == raw # "a"
\* cobra.MinimumNArgs(1): the argument lists a command runs with
ArgLists == UNION {[1..n -> RawNames] : n \in 1..MaxArgs}
\* multiError.Err(): nil for no error, else one error that holds them all
NoError == [nil |-> TRUE, errors |-> <<>>]
Err(allErrs) == IF Len(allErrs) = 0 THEN NoError ELSE [nil |-> FALSE, errors |-> allErrs]

InitCLI ==
    /\ configs = [id \in IDs |-> NoCfg]
    /\ rds = [r \in RNames |-> NoRD]
    /\ inUse = [r \in RNames |-> FALSE]
    /\ pc = [p \in Procs |-> "idle"]
    /\ op = [p \in Procs |-> "none"]
    /\ tgt = [p \in Procs |-> NoTarget]
    /\ arg = [p \in Procs |-> <<>>]
    /\ loc = [p \in Procs |-> NoLoc]
    /\ stack = [p \in Procs |-> <<>>]
    /\ calls = [p \in Procs |-> <<>>]
    /\ out = [p \in Procs |-> "none"]
    /\ ret = [p \in Procs |-> <<>>]
    /\ last = [p \in Procs |-> NoOp]
    /\ nOps = 0
    /\ faults = 0
    /\ \E c \in Commands : \E a \in ArgLists :
          cli = [NoCLI EXCEPT !.pc = "loop", !.cmd = c, !.args = a, !.i = 1]
    /\ pre = [p \in Procs |-> Observed]

\* the error appended for a target: which target, and why
TargetError(raw, why) == [target |-> raw, error |-> why]
\* what became of a target: was the operation called, did the target fail
Tried(raw, called, failed) == [target |-> raw, called |-> called, failed |-> failed]
\* variant: the command returns at the first error
CommandRoundReturnsEarly ==
    /\ cli.pc = "loop" /\ cli.i <= Len(cli.args)
    /\ LET raw == cli.args[cli.i]
       IN IF ~NewIqnOK(raw)
          THEN cli' = [cli EXCEPT !.pc = "returned",
                                  !.tried = Append(@, Tried(raw, FALSE, TRUE)),
                                  !.result = Err(<<TargetError(raw, "invalid name")>>)]
          ELSE \E failed \in BOOLEAN :
                  cli' = [cli EXCEPT
                      !.i = @ + 1,
                      !.pc = IF failed THEN "returned" ELSE @,
                      !.tried = Append(@, Tried(raw, TRUE, failed)),
                      !.result = IF failed
                                 THEN Err(<<TargetError(raw, "operation failed")>>)
                                 ELSE @]
    /\ UNCHANGED <<configs, rds, inUse, pc, op, tgt, arg, loc, stack, calls, out, ret,
                   pre, last, nOps, faults>>

\* one round of `for _, rawiqn := range args`: NewIqn, then the operation
CommandRound ==
    /\ cli.pc = "loop" /\ cli.i <= Len(cli.args)
    /\ LET raw == cli.args[cli.i]
       IN IF ~NewIqnOK(raw)
          THEN cli' = [cli EXCEPT !.i = @ + 1,
                                  !.tried = Append(@, Tried(raw, FALSE, TRUE)),
                                  !.allErrs = Append(@, TargetError(raw, "invalid name"))]
          ELSE \E failed \in BOOLEAN :
                  cli' = [cli EXCEPT
                      !.i = @ + 1,
                      !.tried = Append(@, Tried(raw, TRUE, failed)),
                      !.allErrs = IF failed
                                  THEN Append(@, TargetError(raw, "operation failed"))
                                  ELSE @]
    /\ UNCHANGED <<configs, rds, inUse, pc, op, tgt, arg, loc, stack, calls, out, ret,
                   pre, last, nOps, faults>>

\* return allErrs.Err()
CommandReturn ==
    /\ cli.pc = "loop" /\ cli.i > Len(cli.args)
    /\ cli' = [cli EXCEPT !.pc = "returned", !.result = Err(cli.allErrs)]
    /\ UNCHANGED <<configs, rds, inUse, pc, op, tgt, arg, loc, stack, calls, out, ret,
                   pre, last, nOps, faults>>

NextCLI == CommandRound \/ CommandReturn

SpecCLI == InitCLI /\ [][NextCLI]_vars

(***************************************************************************)
(* Properties.  Every property speaks of an operation that has returned    *)
(* (pc = "done"): op, tgt, arg are what was invoked, out and ret what it   *)
(* returned, calls the external calls it issued, pre the backends when it  *)
(* was invoked, last the operation the same caller completed before it.    *)
(***************************************************************************)
Done(p) == pc[p] = "done"
Issued(p, c) == \E i \in DOMAIN calls[p] : calls[p][i] = c
NoMutatingCall(p) == \A i \in DOMAIN calls[p] : calls[p][i] \notin MutatingCalls
StorageMutatingCalls == {"EnsureResource", "DeleteResourceDefinition", "DeleteVolumeDefinition"}
NoStorageMutatingCall(p) == \A i \in DOMAIN calls[p] : calls[p][i] \notin StorageMutatingCalls
\* no external call of the running operation failed with a transport error
NoFaultSince(p) == faults = pre[p].faults
BackendsAsInvoked(p) == configs = pre[p].configs /\ rds = pre[p].rds
\* the identity had a configuration object / a resource definition when invoked
Existed(p) == pre[p].configs[Me(p)].some
HadDefinition(p) == pre[p].rds[tgt[p].name].exists
\* the caller's previous operation was o on the same identity
After(p, o) == last[p].op = o /\ last[p].tgt = tgt[p]
\* the previous operation was invoked on an identity that had neither a
\* configuration object nor a resource definition
LastWasFresh(p) == last[p].fresh
ValidRequest(p) == Valid(tgt[p].kind, CreateVolumes(tgt[p].kind, arg[p]))

\* C1: Create(d) on an identity unknown to both backends, then Create(d) again:
\* both succeed, both return the same Descriptor, and the second one issues no
\* mutating call to the storage controller.
C1_CreateTwiceEqual ==
    \A p \in SeqProcs :
        (/\ Done(p) /\ op[p] = "Create" /\ After(p, "Create")
         /\ last[p].arg = arg[p] /\ last[p].out = "ok" /\ LastWasFresh(p)
         /\ ValidRequest(p) /\ NoFaultSince(p))
        => /\ out[p] = "ok"
           /\ ret[p] = last[p].ret
           /\ NoStorageMutatingCall(p)

\* what remains of C1 when the Status of the two Descriptors is left out
C1_CreateTwiceEqualButStatus ==
    \A p \in SeqProcs :
        (/\ Done(p) /\ op[p] = "Create" /\ After(p, "Create")
         /\ last[p].arg = arg[p] /\ last[p].out = "ok" /\ LastWasFresh(p)
         /\ ValidRequest(p) /\ NoFaultSince(p))
        => /\ out[p] = "ok"
           /\ WithStatus(ret[p][1], NoStatus) = WithStatus(last[p].ret[1], NoStatus)
           /\ NoMutatingCall(p)

\* C9: a successful Create of a resource that did not exist before returns a
\* Descriptor whose Status.Service is started.
C9_FreshCreateReturnsStarted ==
    \A p \in SeqProcs :
        (/\ Done(p) /\ op[p] = "Create" /\ out[p] = "ok"
         /\ ~Existed(p) /\ ~HadDefinition(p))
        => ret[p][1].Status.Service = "started"

\* two volume lists with the same numbers, some volume of another size
DiffersInSize(a, b) ==
    /\ Len(a) = Len(b)
    /\ \A i \in DOMAIN a : a[i].Number = b[i].Number
    /\ \E i \in DOMAIN a : a[i].SizeKiB # b[i].SizeKiB

\* C2: after a successful Create(d1), Create(d2) with d1's identity and another
\* volume size fails with a conflict error and issues no mutating call to either
\* backend; both backends, and so what Get reconstructs, stay as they were.
C2_ConflictingCreateRejected ==
    \A p \in SeqProcs :
        (/\ Done(p) /\ op[p] = "Create" /\ After(p, "Create")
         /\ last[p].out = "ok" /\ DiffersInSize(last[p].arg, arg[p])
         /\ ValidRequest(p) /\ NoFaultSince(p))
        => /\ out[p] = "conflict" /\ ret[p] = <<>>
           /\ NoMutatingCall(p)
           /\ BackendsAsInvoked(p)

C2_Reached ==
    \E p \in SeqProcs :
        /\ Done(p) /\ op[p] = "Create" /\ After(p, "Create")
        /\ last[p].out = "ok" /\ DiffersInSize(last[p].arg, arg[p])
        /\ out[p] = "conflict" /\ Issued(p, "DeployedResources")

\* the storage controller held a volume definition numbered n when p was invoked
HadVolume(p, n) == \E v \in pre[p].rds[tgt[p].name].vols : v.Number = n
HadVolumeOfSize(p, w) == w \in pre[p].rds[tgt[p].name].vols

\* C3: a DeleteVolume that computes the service state started fails with a
\* conflict error, having issued no mutating call and left both backends as they
\* were; one that computes stopped, for a volume that exists, succeeds; and a
\* volume definition is only ever deleted by a DeleteVolume whose computed
\* service state was not started.
C3_DeleteVolumeGuarded ==
    \A p \in SeqProcs :
        op[p] = "DeleteVolume" =>
            /\ loc[p].status.Service = "started"
                => /\ Done(p) /\ out[p] = "conflict" /\ ret[p] = <<>>
                   /\ NoMutatingCall(p)
                   /\ BackendsAsInvoked(p)
            /\ (/\ Done(p) /\ loc[p].status.Service = "stopped"
                /\ HadVolume(p, arg[p][1]) /\ NoFaultSince(p))
                => out[p] = "ok"
            /\ (Issued(p, "DeleteVolumeDefinition") \/ pc[p] = "DeleteVolume.vd")
                => loc[p].status.Service \in {"stopped", "starting", "unknown"}

C3_Reached ==
    \E p \in SeqProcs :
        /\ Done(p) /\ op[p] = "DeleteVolume" /\ out[p] = "conflict"
        /\ loc[p].status.Service = "started"
        /\ pre[p].inUse[tgt[p].name] /\ HadVolume(p, arg[p][1])

\* the other case of C3: stopped, the volume exists, DeleteVolume succeeds
C3_StoppedReached ==
    \E p \in SeqProcs :
        /\ Done(p) /\ op[p] = "DeleteVolume" /\ out[p] = "ok"
        /\ loc[p].status.Service = "stopped"
        /\ Issued(p, "DeleteVolumeDefinition")
        /\ HadVolume(p, arg[p][1])
        /\ ~\E v \in rds[tgt[p].name].vols : v.Number = arg[p][1]

\* the resource was in use under an attached configuration object when p was
\* invoked and still is
StartedThroughout(p) ==
    /\ Existed(p) /\ pre[p].configs[Me(p)].attached /\ HadDefinition(p)
    /\ pre[p].inUse[tgt[p].name] /\ inUse[tgt[p].name]

C4_StoppedReached ==
    \E p \in SeqProcs :
        /\ Done(p) /\ op[p] = "AddVolume" /\ out[p] = "ok"
        /\ loc[p].status.Service = "stopped"
        /\ Issued(p, "EnsureResource")
        /\ arg[p][1] \in rds[tgt[p].name].vols

NoVolumeZero(d) == \A i \in DOMAIN d.Volumes : d.Volumes[i].Number # 0
VolumeZeroFirstOnly(d) == \A i \in DOMAIN d.Volumes : d.Volumes[i].Number = 0 => i = 1

C5_NFSReached ==
    \E p \in SeqProcs :
        /\ Done(p) /\ op[p] = "Get" /\ tgt[p].kind = "nfs" /\ out[p] = "ok"
        /\ ret[p][1].Volumes # <<>>
        /\ HadVolume(p, 0)

\* C6: Delete of an identity that has neither a configuration object nor a
\* resource definition succeeds: the not-found answer of the deletion of the
\* definition is not an error.
C6_DeleteOfAbsentSucceeds ==
    \A p \in SeqProcs :
        (/\ Done(p) /\ op[p] = "Delete" /\ ~Existed(p) /\ ~HadDefinition(p)
         /\ NoFaultSince(p))
        => /\ out[p] = "ok"
           /\ Issued(p, "DeleteResourceDefinition")
           /\ BackendsAsInvoked(p)

C6_Reached ==
    \E p \in SeqProcs :
        /\ Done(p) /\ op[p] = "Delete" /\ ~Existed(p) /\ ~HadDefinition(p)
        /\ After(p, "Delete") /\ last[p].out = "ok"
        /\ out[p] = "ok" /\ Issued(p, "DeleteResourceDefinition")

\* C7: Get, Start, Stop, AddVolume and DeleteVolume of an identity without a
\* configuration object return nil without error after the lookup alone: no
\* attach, detach, ensure, delete or wait call, both backends unchanged.
C7_AbsentIsNil ==
    \A p \in SeqProcs :
        (/\ Done(p) /\ op[p] \in {"Get", "Start", "Stop", "AddVolume", "DeleteVolume"}
         /\ ~Existed(p) /\ NoFaultSince(p))
        => /\ out[p] = "absent" /\ ret[p] = <<>>
           /\ calls[p] = <<"FindConfig">>
           /\ BackendsAsInvoked(p)

C7_Reached ==
    \E p \in SeqProcs :
        /\ Done(p) /\ op[p] = "Start" /\ ~Existed(p) /\ HadDefinition(p)
        /\ out[p] = "absent" /\ calls[p] = <<"FindConfig">>

\* another identity's configuration object started the NFS server agent when p
\* was invoked
OtherNFSConfig(p) ==
    \E id \in IDs : /\ id # Me(p) /\ pre[p].configs[id].some
                    /\ pre[p].configs[id].agent = "ocf:heartbeat:nfsserver"

\* C8: an NFS Create of a valid Descriptor fails with a conflict error whenever
\* another identity's configuration object starts the NFS server agent; it has
\* then issued ListConfigs only, so no mutating call and no lookup of its own
\* identity, whether or not that identity exists.
C8_SecondNFSRejected ==
    \A p \in SeqProcs :
        (/\ Done(p) /\ op[p] = "Create" /\ tgt[p].kind = "nfs"
         /\ ValidRequest(p) /\ NoFaultSince(p) /\ OtherNFSConfig(p))
        => /\ out[p] = "conflict" /\ ret[p] = <<>>
           /\ calls[p] = <<"ListConfigs">>
           /\ BackendsAsInvoked(p)

C8_Reached ==
    \E p \in SeqProcs :
        /\ Done(p) /\ op[p] = "Create" /\ tgt[p].kind = "nfs"
        /\ OtherNFSConfig(p) /\ ~Existed(p)
        /\ out[p] = "conflict"

\* C10: a Start that succeeds has issued the attach, then a poll that saw the
\* resource in use, and returns a Descriptor whose Status.Service is started; a
\* Start of an existing identity none of whose polls saw the resource in use
\* returns an error and no Descriptor.
C10_StartAttachesThenSeesInUse ==
    \A p \in SeqProcs :
        (Done(p) /\ op[p] = "Start") =>
            /\ out[p] = "ok"
                => /\ \E i, j \in DOMAIN calls[p] :
                        /\ i < j
                        /\ calls[p][i] = "AttachConfig"
                        /\ calls[p][j] = "Poll:true"
                   /\ Len(ret[p]) = 1
                   /\ ret[p][1].Status.Service = "started"
            /\ (Existed(p) /\ ~Issued(p, "Poll:true"))
                => out[p] \in ErrorOutcomes /\ ret[p] = <<>>

C10_Reached ==
    \E p \in SeqProcs :
        /\ Done(p) /\ op[p] = "Start" /\ out[p] = "ok"
        /\ ~pre[p].inUse[tgt[p].name]
        /\ ret[p][1].Status.Service = "started"

\* the other case of C10: the deadline passes before a poll sees the resource in use
C10_TimeoutReached ==
    \E p \in SeqProcs :
        /\ Done(p) /\ op[p] = "Start" /\ out[p] = "timeout"
        /\ Issued(p, "AttachConfig")

\* C12: Delete removes the configuration object before it waits, and asks the
\* storage controller to delete the resource definition only after a poll has
\* seen the resource in use on no node, which is still so when the deletion is
\* issued; when the removal of the configuration or the wait fails (deadline
\* or backend error), the deletion of the definition is not issued and the
\* definition is left as it was.
C12_DeleteOrdered ==
    \A p \in SeqProcs :
        op[p] = "Delete" =>
            /\ Issued(p, "DeleteResourceDefinition")
                => calls[p] = <<"DeleteConfig", "Poll:true", "DeleteResourceDefinition">>
            /\ (Issued(p, "Poll:true") \/ Issued(p, "Poll:error") \/ pc[p] = "Delete.wait")
                => calls[p][1] = "DeleteConfig" /\ ~configs[Me(p)].some
            /\ pc[p] = "Delete.rd" => ~inUse[tgt[p].name]
            /\ (Done(p) /\ ~Issued(p, "Poll:true"))
                => /\ out[p] \in {"backend", "timeout"}
                   /\ ~Issued(p, "DeleteResourceDefinition")
                   /\ rds = pre[p].rds

\* a Delete of a started identity that has deleted the definition
C12_Reached ==
    \E p \in SeqProcs :
        /\ Done(p) /\ op[p] = "Delete" /\ out[p] = "ok"
        /\ Existed(p) /\ pre[p].inUse[tgt[p].name]
        /\ ~rds[tgt[p].name].exists

\* the other case of C12: the wait runs into its deadline, the definition stays
C12_TimeoutReached ==
    \E p \in SeqProcs :
        /\ Done(p) /\ op[p] = "Delete" /\ out[p] = "timeout"
        /\ Existed(p) /\ rds[tgt[p].name].exists /\ inUse[tgt[p].name]

\* the volume numbers the configuration object of p's identity lists
ConfigVolumes(p) == Range(configs[Me(p)].vols)
\* the numbers of the volume definitions the identity had at invocation
DefinedNumbers(p) == {w.Number : w \in pre[p].rds[tgt[p].name].vols}

\* C13: AddVolume(identity, v) where a volume with v's number is deployed (no
\* backend call failing): with another size the call fails, has issued no
\* mutating call and leaves both backends as they were; with the same size it
\* never issues an ensure-resource call, succeeds after persisting the
\* configuration object with the volume list of the deployed volumes (v
\* neither added twice nor anything dropped), and the storage layer is as it
\* was.
C13_AddExistingVolume ==
    \A p \in SeqProcs :
        (op[p] = "AddVolume" /\ Existed(p) /\ HadDefinition(p)
         /\ HadVolume(p, arg[p][1].Number))
        => /\ ~Issued(p, "EnsureResource") /\ pc[p] # "AddVolume.ensureRes"
           /\ rds = pre[p].rds
           /\ (Done(p) /\ NoFaultSince(p) /\ ~HadVolumeOfSize(p, arg[p][1]))
                => /\ out[p] \in ErrorOutcomes /\ ret[p] = <<>>
                   /\ NoMutatingCall(p)
                   /\ BackendsAsInvoked(p)
           /\ (Done(p) /\ NoFaultSince(p) /\ HadVolumeOfSize(p, arg[p][1]))
                => /\ out[p] = "ok"
                   /\ Issued(p, "EnsureConfig")
                   /\ ConfigVolumes(p) = DefinedNumbers(p)
                   /\ Len(configs[Me(p)].vols) = Cardinality(DefinedNumbers(p))
                   /\ Numbers(ret[p][1].Volumes) = configs[Me(p)].vols

\* AddVolume of a deployed volume with its size has succeeded
C13_Reached ==
    \E p \in SeqProcs :
        /\ Done(p) /\ op[p] = "AddVolume" /\ out[p] = "ok"
        /\ Existed(p) /\ HadVolumeOfSize(p, arg[p][1])
        /\ calls[p] = <<"FindConfig", "DeployedResources", "EnsureConfig">>

\* the other case of C13: a deployed volume, another size, AddVolume has failed
C13_SizeDiffersReached ==
    \E p \in SeqProcs :
        /\ Done(p) /\ op[p] = "AddVolume" /\ out[p] = "conflict"
        /\ Existed(p) /\ HadVolume(p, arg[p][1].Number) /\ ~HadVolumeOfSize(p, arg[p][1])
        /\ arg[p][1].Number # 0

\* the steps of Create that C19 orders, as they appear among the calls of p
IsCreateStep(c) == c \in {"EnsureResource", "EnsureConfig", "AttachConfig", "Poll:true", "Poll:error"}
CreateSteps(p) == SelectSeq(calls[p], IsCreateStep)
CreateOrder == <<{"EnsureResource"}, {"EnsureConfig"}, {"AttachConfig"}, {"Poll:true", "Poll:error"}>>
\* a requested volume has no volume definition yet
AsksForNewVolume(p) == \E i \in DOMAIN arg[p] : arg[p][i].Number \notin DefinedNumbers(p)

\* C19: a Create of an identity without a configuration object issues
\* ensure-resource, then the ensure of the configuration object, then the
\* attach, then the wait, each at most once and none before its predecessor;
\* a Create that returns success has issued all four.  The ensure-resource
\* passes volume 0 (the cluster-private volume) and the requested volumes: a
\* resource definition it creates holds exactly these.  It passes the
\* allow-extend flag false: on a resource definition that lacks a requested
\* volume it fails and nothing later is issued.
C19_CreateStepsInOrder ==
    \A p \in SeqProcs :
        (op[p] = "Create" /\ ~Existed(p)) =>
            LET s == CreateSteps(p)
            IN /\ Len(s) <= Len(CreateOrder)
               /\ \A i \in DOMAIN s : s[i] \in CreateOrder[i]
               /\ (Done(p) /\ out[p] = "ok") => Len(s) = 4 /\ s[4] = "Poll:true"
               /\ (Done(p) /\ Len(s) < 4) => out[p] \in ErrorOutcomes
               /\ (pc[p] = "Create.ensureCfg" /\ ~HadDefinition(p))
                    => /\ rds[tgt[p].name].vols = {ClusterPrivateVolume} \cup Range(arg[p])
                       /\ CreateEnsureVolumes(tgt[p].kind, arg[p])[1] = ClusterPrivateVolume
               /\ (Issued(p, "EnsureResource") /\ HadDefinition(p) /\ AsksForNewVolume(p))
                    => /\ Done(p) /\ out[p] \in ErrorOutcomes
                       /\ s = <<"EnsureResource">>
                       /\ rds = pre[p].rds

\* a Create on empty backends has gone through the four steps
C19_Reached ==
    \E p \in SeqProcs :
        /\ Done(p) /\ op[p] = "Create" /\ out[p] = "ok"
        /\ ~Existed(p) /\ ~HadDefinition(p)
        /\ CreateSteps(p) = <<"EnsureResource", "EnsureConfig", "AttachConfig", "Poll:true">>
        /\ Len(arg[p]) = 2

\* the allow-extend case of C19: a definition left behind lacks a requested volume
C19_NoExtendReached ==
    \E p \in SeqProcs :
        /\ Done(p) /\ op[p] = "Create" /\ ~Existed(p) /\ HadDefinition(p)
        /\ AsksForNewVolume(p) /\ Issued(p, "EnsureResource") /\ NoFaultSince(p)

\* a step of Create fails: the sequence stops there
C19_StoppedReached ==
    \E p \in SeqProcs :
        /\ Done(p) /\ op[p] = "Create" /\ ~Existed(p)
        /\ CreateSteps(p) = <<"EnsureResource", "EnsureConfig">>

\* the configuration objects of List's endpoint type, in list-all order
ListedNames(p) ==
    LET l == [i \in DOMAIN IDOrder |-> IDOrder[i]]
        s == SelectIdx(l, 1, {i \in DOMAIN l : /\ pre[p].configs[l[i]].some
                                               /\ MatchesIDFormat(tgt[p].kind, l[i])})
    IN [i \in DOMAIN s |-> s[i].name]
\* the number of DeployedResources calls of p that failed
UnreadableItems(p) == IF Issued(p, "DeployedResources") THEN faults - pre[p].faults ELSE 0

\* C16 (as claimed): List succeeds whenever list-all succeeds, and returns one
\* Descriptor for every object of its endpoint type except those whose
\* deployed state could not be read or that could not be decoded.
C16_ListSkipsUnreadable ==
    \A p \in SeqProcs :
        (Done(p) /\ op[p] = "List") =>
            /\ out[p] # "ok" => calls[p] = <<"ListConfigs">> /\ ~NoFaultSince(p)
            /\ out[p] = "ok" => Len(ret[p]) = Len(ListedNames(p)) - UnreadableItems(p)

\* what List does: one Descriptor for every object of its endpoint type that
\* decodes, in list-all order, also for an object whose deployed state could
\* not be read (no volumes, service state unknown)
C16_ListKeepsUnreadable ==
    \A p \in SeqProcs :
        (Done(p) /\ op[p] = "List") =>
            /\ out[p] # "ok" => calls[p] = <<"ListConfigs">> /\ ~NoFaultSince(p)
            /\ out[p] = "ok" => [i \in DOMAIN ret[p] |-> ret[p][i].Name] = ListedNames(p)

\* a List during which the read of an object's deployed state failed
C16_UnreadableReached ==
    \E p \in SeqProcs :
        /\ Done(p) /\ op[p] = "List" /\ out[p] = "ok"
        /\ UnreadableItems(p) = 1
        /\ Len(ret[p]) = 1 /\ ret[p][1].Volumes = <<>>
        /\ ret[p][1].Status.Service = "unknown"

\* C18 (as claimed): a Create or AddVolume that fails with a validation error
\* has issued no call, neither read nor write, to either backend.
C18_ValidationBeforeAnyCall ==
    \A p \in SeqProcs :
        (Done(p) /\ op[p] \in {"Create", "AddVolume"} /\ out[p] = "validation")
        => calls[p] = <<>>

\* C18 (amended): a Create that fails with a validation error has issued no
\* call at all; an AddVolume that fails with a validation error has issued the
\* two reads that fetch the configuration object and its deployed state, and
\* no mutating call; either leaves both backends as they were.
C18_ValidationBeforeAnyMutation ==
    \A p \in SeqProcs :
        (Done(p) /\ out[p] = "validation") =>
            /\ op[p] \in {"Create", "AddVolume"}
            /\ op[p] = "Create" => calls[p] = <<>>
            /\ op[p] = "AddVolume" => calls[p] = <<"FindConfig", "DeployedResources">>
            /\ NoMutatingCall(p)
            /\ BackendsAsInvoked(p)

\* AddVolume of a volume with a negative number on a stopped target
C18_Reached ==
    \E p \in SeqProcs :
        /\ Done(p) /\ op[p] = "AddVolume" /\ out[p] = "validation"
        /\ arg[p][1].Number < 0 /\ Existed(p)

\* the other case of C18: Create of a request that is not valid
C18_CreateReached ==
    \E p \in SeqProcs :
        /\ Done(p) /\ op[p] = "Create" /\ out[p] = "validation"
        /\ ~ValidRequest(p) /\ calls[p] = <<>>

(***************************************************************************)
(* The lifecycle operations on the deployed endpoints, with a caller that   *)
(* keeps running: a step of                                                *)
(* the invoked operation that can be taken is taken eventually (the        *)
(* goroutine is scheduled, the poll ticker and the deadline timer fire).   *)
(* Nothing is assumed of the HA daemon, which may never promote or demote. *)
(***************************************************************************)
WaitingOps == {"Create", "Start", "Stop", "Delete"}
InvokeLifecycle(p) ==
    \E t \in Targets :
        /\ Known(p, t)
        /\ \E o \in WaitingOps : \E a \in ArgsOf(o) : Begin(p, o, t, a)
LifecycleStep(p) ==
    \/ GetFind(p) \/ GetDeployed(p)
    \/ CreateList(p) \/ CreateFind(p) \/ CreateDeployed(p)
    \/ CreateEnsureRes(p) \/ CreateEnsureCfg(p)
    \/ StartFind(p) \/ StartAttach(p) \/ StartWait(p)
    \/ StopFind(p) \/ StopDetach(p) \/ StopWait(p)
    \/ DeleteConfigStep(p) \/ DeleteWait(p) \/ DeleteRD(p)
NextLifecycle == (\E p \in SeqProcs : InvokeLifecycle(p) \/ LifecycleStep(p)) \/ Daemon
\* every step of an operation changes the caller's position or poll count
position == <<pc, loc>>
CallerRuns == \A p \in SeqProcs : WF_position(LifecycleStep(p))
SpecLifecycle == InitDeployed /\ [][NextLifecycle]_vars /\ CallerRuns

(***************************************************************************)
(* The two reconcilers side by side: an NFS export and an NVMe-oF          *)
(* subsystem in corresponding backend states (both absent, or both         *)
(* deployed with the same requested volumes and in the same service        *)
(* state). Caller 1 invokes an operation of the NFS reconciler, caller 2   *)
(* then the same operation with the same argument of the NVMe-oF           *)
(* reconciler. The HA daemon does not act, so that both operations see     *)
(* the same resource usage from their first call to their last.            *)
(***************************************************************************)
NFSTwin == [kind |-> "nfs", name |-> "a"]
NVMeTwin == [kind |-> "nvmeof", name |-> "c"]
Twins == {NFSTwin, NVMeTwin}
TwinVolumes == {<<Vol(1, 1)>>, <<Vol(1, 1), Vol(2, 2)>>}
TwinStates == {"absent", "stopped", "starting", "started"}
InitTwin ==
    /\ \E vs \in TwinVolumes : \E st \in TwinStates :
          /\ configs = [id \in IDs |->
                           IF id \in Twins /\ st # "absent"
                           THEN DeployedConfig([tgt |-> id, vols |-> vs], st # "stopped")
                           ELSE NoCfg]
          /\ rds = [r \in RNames |->
                       IF st # "absent" /\ \E t \in Twins : t.name = r
                       THEN DeployedDefinition([tgt |-> CHOOSE t \in Twins : t.name = r,
                                                vols |-> vs])
                       ELSE NoRD]
          /\ inUse = [r \in RNames |-> st = "started" /\ \E t \in Twins : t.name = r]
    /\ pc = [p \in Procs |-> "idle"]
    /\ op = [p \in Procs |-> "none"]
    /\ tgt = [p \in Procs |-> NoTarget]
    /\ arg = [p \in Procs |-> <<>>]
    /\ loc = [p \in Procs |-> NoLoc]
    /\ stack = [p \in Procs |-> <<>>]
    /\ calls = [p \in Procs |-> <<>>]
    /\ out = [p \in Procs |-> "none"]
    /\ ret = [p \in Procs |-> <<>>]
    /\ last = [p \in Procs |-> NoOp]
    /\ nOps = 0
    /\ faults = 0
    /\ cli = NoCLI
    /\ pre = [p \in Procs |-> Observed]

\* the operations both reconcilers have
SharedOps == (OpsOf("nfs") \cap OpsOf("nvmeof")) \cup {"List"}
TwinTarget(o, t) == IF o = "List" THEN [kind |-> t.kind, name |-> "*"] ELSE t
InvokeTwin ==
    \/ /\ pc[1] = "idle"
       /\ \E o \in SharedOps : \E a \in ArgsOf(o) : Begin(1, o, TwinTarget(o, NFSTwin), a)
    \/ /\ pc[1] = "done" /\ pc[2] = "idle"
       /\ Begin(2, op[1], TwinTarget(op[1], NVMeTwin), arg[1])
TwinStep(p) ==
    \/ GetFind(p) \/ GetDeployed(p)
    \/ CreateList(p) \/ CreateFind(p) \/ CreateDeployed(p)
    \/ CreateEnsureRes(p) \/ CreateEnsureCfg(p)
    \/ StartFind(p) \/ StartAttach(p) \/ StartWait(p)
    \/ StopFind(p) \/ StopDetach(p) \/ StopWait(p)
    \/ DeleteConfigStep(p) \/ DeleteWait(p) \/ DeleteRD(p)
    \/ DeleteVolumeFind(p) \/ DeleteVolumeDeployed(p) \/ DeleteVolumeVD(p)
    \/ DeleteVolumeEnsureCfg(p)
    \/ ListList(p) \/ ListItem(p)
NextTwin == InvokeTwin \/ \E p \in Procs : TwinStep(p)
SpecTwin == InitTwin /\ [][NextTwin]_vars
(***************************************************************************)
(* Two callers at once: each invokes one Create, Delete or AddVolume, and  *)
(* the external calls of the two operations interleave in any order,       *)
(* beside the HA daemon. The backends start empty or hold a stopped        *)
(* NVMe-oF subsystem that has its cluster-private volume only.             *)
(***************************************************************************)
ConcurrentOps == {"Create", "Delete", "AddVolume"}
BareSubsystem == [tgt |-> [kind |-> "nvmeof", name |-> "c"], vols |-> <<>>]
InitConcurrent ==
    /\ \E deployed \in BOOLEAN :
          /\ configs = [id \in IDs |-> IF deployed /\ id = BareSubsystem.tgt
                                       THEN DeployedConfig(BareSubsystem, FALSE) ELSE NoCfg]
          /\ rds = [r \in RNames |-> IF deployed /\ r = BareSubsystem.tgt.name
                                     THEN DeployedDefinition(BareSubsystem) ELSE NoRD]
          /\ inUse = [r \in RNames |-> FALSE]
    /\ pc = [p \in Procs |-> "idle"]
    /\ op = [p \in Procs |-> "none"]
    /\ tgt = [p \in Procs |-> NoTarget]
    /\ arg = [p \in Procs |-> <<>>]
    /\ loc = [p \in Procs |-> NoLoc]
    /\ stack = [p \in Procs |-> <<>>]
    /\ calls = [p \in Procs |-> <<>>]
    /\ out = [p \in Procs |-> "none"]
    /\ ret = [p \in Procs |-> <<>>]
    /\ last = [p \in Procs |-> NoOp]
    /\ nOps = 0
    /\ faults = 0
    /\ cli = NoCLI
    /\ pre = [p \in Procs |-> Observed]
InvokeConcurrent(p) ==
    /\ pc[p] = "idle"
    /\ \E t \in Targets : \E o \in ConcurrentOps \cap OpsOf(t.kind) :
          \E a \in ArgsOf(o) : Begin(p, o, t, a)
ConcurrentStep(p) ==
    \/ GetFind(p) \/ GetDeployed(p)
    \/ CreateList(p) \/ CreateFind(p) \/ CreateDeployed(p)
    \/ CreateEnsureRes(p) \/ CreateEnsureCfg(p)
    \/ StartFind(p) \/ StartAttach(p) \/ StartWait(p)
    \/ DeleteConfigStep(p) \/ DeleteWait(p) \/ DeleteRD(p)
    \/ AddVolumeFind(p) \/ AddVolumeDeployed(p) \/ AddVolumeEnsureRes(p)
    \/ AddVolumeEnsureCfg(p)
NextConcurrent == (\E p \in Procs : InvokeConcurrent(p) \/ ConcurrentStep(p)) \/ Daemon
SpecConcurrent == InitConcurrent /\ [][NextConcurrent]_vars
\* the backends of SpecDeployed's initial states are what Create, or Create
\* and Stop, leave behind: for a deployment whose volumes are among
\* CreateRequests the state is reached from empty backends
DeploymentReached ==
    \E p \in SeqProcs : \E d \in Deployments : \E started \in BOOLEAN :
        /\ Done(p) /\ tgt[p] = d.tgt /\ out[p] = "ok"
        /\ op[p] = (IF started THEN "Create" ELSE "Stop")
        /\ configs[d.tgt] = DeployedConfig(d, started)
        /\ rds[d.tgt.name] = DeployedDefinition(d)
        /\ inUse[d.tgt.name] = started
        /\ \A id \in IDs \ {d.tgt} : ~configs[id].some

\* C11: a Stop that succeeds on an existing identity has issued the detach
\* before its wait began, then a poll that saw the resource in use on no node,
\* and returns a Descriptor whose Status.Service is stopped; a DeleteVolume of
\* a deployed data volume that follows it succeeds (no backend call failing)
\* and the volume definition is gone.
C11_StopDetachesThenSeesUnused ==
    \A p \in SeqProcs :
        /\ (op[p] = "Stop" /\ pc[p] = "Stop.wait")
            => /\ ~configs[Me(p)].attached
               /\ calls[p] = <<"FindConfig", "DetachConfig">>
        /\ (Done(p) /\ op[p] = "Stop" /\ out[p] = "ok")
            => /\ \E i, j \in DOMAIN calls[p] :
                    /\ i < j
                    /\ calls[p][i] = "DetachConfig"
                    /\ calls[p][j] = "Poll:true"
               /\ Len(ret[p]) = 1
               /\ ret[p][1].Status.Service = "stopped"
        /\ (/\ Done(p) /\ op[p] = "DeleteVolume"
            /\ After(p, "Stop") /\ last[p].out = "ok"
            /\ HadVolume(p, arg[p][1]) /\ arg[p][1] # 0 /\ NoFaultSince(p))
            => /\ out[p] = "ok"
               /\ \A w \in rds[tgt[p].name].vols : w.Number # arg[p][1]

\* Stop of a started endpoint has succeeded and the DeleteVolume after it too
C11_Reached ==
    \E p \in SeqProcs :
        /\ Done(p) /\ op[p] = "DeleteVolume" /\ out[p] = "ok"
        /\ After(p, "Stop") /\ last[p].out = "ok"
        /\ last[p].ret[1].Status.Service = "stopped"
        /\ HadVolume(p, arg[p][1]) /\ arg[p][1] # 0
        /\ Issued(p, "DeleteVolumeDefinition")

\* the Stop of C11 alone: the endpoint was in use when Stop was invoked
C11_StopReached ==
    \E p \in SeqProcs :
        /\ Done(p) /\ op[p] = "Stop" /\ out[p] = "ok"
        /\ pre[p].inUse[tgt[p].name] /\ pre[p].configs[Me(p)].attached
        /\ ret[p][1].Status.Service = "stopped"

\* the volumes of a Descriptor are in strictly ascending number order
Ascending(vs) == \A i \in 1..(Len(vs) - 1) : vs[i].Number < vs[i + 1].Number
\* the numbers of the volume definitions the identity has now
StoredNumbers(p) == {w.Number : w \in rds[tgt[p].name].vols}

\* C14: after a successful AddVolume of a volume v whose number was not
\* deployed (the service state it computed is not started), the storage layer
\* holds the volume definitions it held before and v with the requested size,
\* the persisted configuration object lists v's number along with the numbers
\* of the other volume definitions, and the returned Descriptor lists v and
\* every volume deployed before, in strictly ascending number order.  A Get
\* that follows a successful AddVolume(v) returns the same volume list, with
\* v in it; so does a List that reads the deployed state of the identity.
C14_AddedVolumeEverywhere ==
    \A p \in SeqProcs :
        /\ (/\ Done(p) /\ op[p] = "AddVolume" /\ out[p] = "ok"
            /\ ~HadVolume(p, arg[p][1].Number))
            => /\ loc[p].status.Service \in {"stopped", "starting", "unknown"}
               /\ rds[tgt[p].name].vols = pre[p].rds[tgt[p].name].vols \cup {arg[p][1]}
               /\ arg[p][1].Number \in ConfigVolumes(p)
               /\ ConfigVolumes(p) = StoredNumbers(p)
               /\ Len(ret[p]) = 1
               /\ Range(ret[p][1].Volumes) = rds[tgt[p].name].vols
               /\ Ascending(ret[p][1].Volumes)
        /\ (/\ Done(p) /\ op[p] = "Get" /\ out[p] = "ok"
            /\ After(p, "AddVolume") /\ last[p].out = "ok")
            => /\ last[p].arg[1] \in Range(ret[p][1].Volumes)
               /\ ret[p][1].Volumes = last[p].ret[1].Volumes
               /\ Ascending(ret[p][1].Volumes)
        /\ (/\ Done(p) /\ op[p] = "List" /\ out[p] = "ok" /\ NoFaultSince(p)
            /\ last[p].op = "AddVolume" /\ last[p].out = "ok"
            /\ last[p].tgt.kind = tgt[p].kind)
            => \E i \in DOMAIN ret[p] :
                  /\ ret[p][i].Name = last[p].tgt.name
                  /\ ret[p][i].Volumes = last[p].ret[1].Volumes
                  /\ last[p].arg[1] \in Range(ret[p][i].Volumes)

\* a volume has been added between two deployed ones
C14_Reached ==
    \E p \in SeqProcs :
        /\ Done(p) /\ op[p] = "AddVolume" /\ out[p] = "ok"
        /\ ~HadVolume(p, arg[p][1].Number)
        /\ Len(ret[p][1].Volumes) = 3
        /\ ret[p][1].Volumes[2] = arg[p][1]
        /\ arg[p][1] \in rds[tgt[p].name].vols

\* the Get of C14: it follows an AddVolume that has added a volume definition
C14_GetReached ==
    \E p \in SeqProcs :
        /\ Done(p) /\ op[p] = "Get" /\ out[p] = "ok"
        /\ After(p, "AddVolume") /\ last[p].out = "ok"
        /\ Len(ret[p][1].Volumes) = 3 /\ ret[p][1].Volumes[2] = last[p].arg[1]

\* the List of C14
C14_ListReached ==
    \E p \in SeqProcs :
        /\ Done(p) /\ op[p] = "List" /\ out[p] = "ok" /\ NoFaultSince(p)
        /\ last[p].op = "AddVolume" /\ last[p].out = "ok"
        /\ Len(ret[p]) = 1 /\ Len(ret[p][1].Volumes) = 3

\* the volume numbers every placement record listed when p was invoked
PlacedNumbers(p) == DefinedNumbers(p)
\* DeleteVolume has deleted the definition of a deployed volume and cut the
\* lists; the configuration object is about to be derived from them
DerivingConfig(p) ==
    /\ op[p] = "DeleteVolume" /\ pc[p] = "DeleteVolume.ensureCfg"
    /\ HadVolume(p, arg[p][1])
\* DeleteVolume of a deployed volume has succeeded
DeletedVolume(p) ==
    /\ Done(p) /\ op[p] = "DeleteVolume" /\ out[p] = "ok"
    /\ HadVolume(p, arg[p][1]) /\ Issued(p, "DeleteVolumeDefinition")

\* the storage layer, the persisted configuration object and the returned
\* Descriptor have lost volume n and nothing else
GoneFromBackends(p) ==
    /\ StoredNumbers(p) = DefinedNumbers(p) \ {arg[p][1]}
    /\ ConfigVolumes(p) = StoredNumbers(p)
    /\ Len(ret[p]) = 1
    /\ Range(Numbers(ret[p][1].Volumes)) = StoredNumbers(p) \ (IF tgt[p].kind = "nfs" THEN {0} ELSE {})
\* every placement record's volume list has lost volume n and nothing else
GoneFromPlacements(p) ==
    \A j \in DOMAIN loc[p].snap.res :
        Range(loc[p].snap.res[j].Volumes) = PlacedNumbers(p) \ {arg[p][1]}

\* C15: a successful DeleteVolume(identity, n) of a deployed volume n on a
\* resource that is not started removes n, and no other volume, from the
\* storage layer, from the returned Descriptor, from the persisted
\* configuration object, and from the volume list of every placement record
\* the new configuration object is derived from.
C15_VolumeGoneEverywhere ==
    \A p \in SeqProcs :
        /\ DerivingConfig(p) => GoneFromPlacements(p)
        /\ DeletedVolume(p) => GoneFromBackends(p)

\* what holds of DeleteVolume: the backends and the Descriptor lose volume n
C15_VolumeGoneFromBackends ==
    \A p \in SeqProcs : DeletedVolume(p) => GoneFromBackends(p)

\* what holds of the NVMe-oF DeleteVolume: the placement lists lose volume n
C15_NVMePlacementsCut ==
    \A p \in SeqProcs :
        (DerivingConfig(p) /\ tgt[p].kind = "nvmeof") => GoneFromPlacements(p)

\* an NFS DeleteVolume has cut another entry out of the placement lists
C15_WrongEntryCut ==
    \E p \in SeqProcs :
        /\ DerivingConfig(p) /\ tgt[p].kind = "nfs"
        /\ \A j \in DOMAIN loc[p].snap.res :
              /\ arg[p][1] \in Range(loc[p].snap.res[j].Volumes)
              /\ 0 \notin Range(loc[p].snap.res[j].Volumes)

\* configuration object c and resource definition d are there together or
\* not at all, and c lists the numbers of d's volume definitions
Agree(c, d) ==
    /\ c.some <=> d.exists
    /\ c.some => Range(c.vols) = {w.Number : w \in d.vols}
\* every operation so far has left the identity's backends in agreement
AgreedWhenInvoked(p) == Agree(pre[p].configs[Me(p)], pre[p].rds[tgt[p].name])

\* C20: where operations run one at a time and each returns success, after
\* every completed Create, AddVolume or DeleteVolume the persisted
\* configuration object of the identity lists exactly the numbers of the
\* volume definitions of its storage resource, volume 0 included.  Checked
\* as the step of the induction over such a run: an operation that returns
\* success on an identity whose backends agreed when it was invoked (as they
\* do when empty and when Create has deployed the identity) leaves them in
\* agreement, and after Create, AddVolume and DeleteVolume both exist.
C20_VolumeSetsAgree ==
    \A p \in SeqProcs :
        (Done(p) /\ tgt[p] \in Targets /\ out[p] \in {"ok", "absent"} /\ AgreedWhenInvoked(p))
        => /\ Agree(configs[Me(p)], rds[tgt[p].name])
           /\ (op[p] \in {"Create", "AddVolume", "DeleteVolume"} /\ out[p] = "ok")
                => /\ configs[Me(p)].some
                   /\ ConfigVolumes(p) = StoredNumbers(p)
                   /\ Len(configs[Me(p)].vols) = Cardinality(StoredNumbers(p))

\* a DeleteVolume after a successful operation has changed both volume sets
C20_Reached ==
    \E p \in SeqProcs :
        /\ DeletedVolume(p) /\ AgreedWhenInvoked(p)
        /\ last[p].out = "ok" /\ After(p, "Stop")
        /\ StoredNumbers(p) # DefinedNumbers(p)
        /\ ConfigVolumes(p) = StoredNumbers(p)

\* the AddVolume of C20: it follows a successful operation and adds a volume
C20_AddVolumeReached ==
    \E p \in SeqProcs :
        /\ Done(p) /\ op[p] = "AddVolume" /\ out[p] = "ok" /\ AgreedWhenInvoked(p)
        /\ last[p].out = "ok" /\ After(p, "Stop")
        /\ StoredNumbers(p) # DefinedNumbers(p)

\* the Create of C20: it follows a successful Delete and deploys the identity anew
C20_CreateReached ==
    \E p \in SeqProcs :
        /\ Done(p) /\ op[p] = "Create" /\ out[p] = "ok" /\ AgreedWhenInvoked(p)
        /\ last[p].out = "ok" /\ After(p, "Delete")
        /\ ~Existed(p) /\ configs[Me(p)].some

\* the targets of the command line that failed: invalid name or failed operation
FailedTargets == {i \in DOMAIN cli.tried : cli.tried[i].failed}

\* C17: a start, stop or delete command given several targets goes through
\* every target in argument order whatever failed before, calling the
\* operation for every target with a valid name; the error it returns holds
\* the error of every target that failed (invalid name or failed operation),
\* in argument order, and of no other; it returns no error exactly when no
\* target failed.
C17_EveryTargetAttempted ==
    cli.pc = "returned" =>
        /\ [i \in DOMAIN cli.tried |-> cli.tried[i].target] = cli.args
        /\ \A i \in DOMAIN cli.tried :
              /\ cli.tried[i].called <=> NewIqnOK(cli.args[i])
              /\ ~cli.tried[i].called => cli.tried[i].failed
        /\ [i \in DOMAIN cli.result.errors |-> cli.result.errors[i].target]
              = SelectIdx(cli.args, 1, FailedTargets)
        /\ cli.result = NoError <=> FailedTargets = {}
        /\ cli.result.nil <=> FailedTargets = {}

\* a command whose first target has an invalid name and whose second target
\* fails has gone on to the third and reports both
C17_Reached ==
    /\ cli.pc = "returned" /\ Len(cli.args) = 3
    /\ ~NewIqnOK(cli.args[1]) /\ cli.tried[2].called /\ cli.tried[2].failed
    /\ cli.tried[3].called /\ ~cli.tried[3].failed
    /\ ~cli.result.nil
    /\ cli.result.errors = <<TargetError(cli.args[1], "invalid name"),
                             TargetError(cli.args[2], "operation failed")>>

\* the other case of C17: every target succeeded, no error is returned
C17_NoErrorReached ==
    /\ cli.pc = "returned" /\ Len(cli.args) = 2
    /\ cli.result = NoError /\ FailedTargets = {}

\* the identity was stopped when the operation was invoked: its configuration
\* object was detached and no node had the resource in use
WasStopped(p) ==
    /\ Existed(p) /\ ~pre[p].configs[Me(p)].attached
    /\ HadDefinition(p) /\ ~pre[p].inUse[tgt[p].name]

\* C29: a Create for an identity whose configuration object exists issues no
\* mutating call at any point (no ensure, no attach) and leaves the HA Config
\* Store and the storage definitions as they were; when it returns success for
\* an identity that was stopped at the invocation, the identity is still
\* detached and unused and the returned Descriptor's Status is not started
C29_ExistingCreateChangesNothing ==
    \A p \in SeqProcs :
        (op[p] = "Create" /\ tgt[p] \in Targets /\ Existed(p)) =>
            /\ NoMutatingCall(p)
            /\ BackendsAsInvoked(p)
            /\ (Done(p) /\ out[p] = "ok" /\ WasStopped(p)) =>
                   /\ ~configs[Me(p)].attached
                   /\ ~inUse[tgt[p].name]
                   /\ Len(ret[p]) = 1
                   /\ ret[p][1].Status.Service = "stopped"

\* a Create with a matching request returned success for a stopped identity
C29_Reached ==
    \E p \in SeqProcs :
        /\ Done(p) /\ op[p] = "Create" /\ WasStopped(p) /\ out[p] = "ok"
        /\ calls[p][Len(calls[p])] = "DeployedResources"

\* the last external call the operation issued, "none" before the first
LastCall(p) == IF calls[p] = <<>> THEN "none" ELSE calls[p][Len(calls[p])]
\* the operation issued call c and at least one call after it
IssuedBeforeLast(p, c) == \E i \in DOMAIN calls[p] : calls[p][i] = c /\ i < Len(calls[p])
\* a Create on an identity with neither object nor definition has failed
FreshCreateFailed(p) ==
    /\ Done(p) /\ op[p] = "Create" /\ tgt[p] \in Targets
    /\ ~Existed(p) /\ ~HadDefinition(p)
    /\ out[p] \in ErrorOutcomes
\* the volumes Create asks the storage controller for are all defined
EnsuredVolumesDefined(p) ==
    /\ rds[tgt[p].name].exists
    /\ \A i \in DOMAIN CreateEnsureVolumes(tgt[p].kind, arg[p]) :
           CreateEnsureVolumes(tgt[p].kind, arg[p])[i] \in rds[tgt[p].name].vols
\* the caller repeats the Create that failed after persisting the object
RepeatsFailedCreate(p) ==
    /\ op[p] = "Create" /\ After(p, "Create") /\ LastWasFresh(p)
    /\ last[p].arg = arg[p] /\ last[p].out \in ErrorOutcomes
    /\ Existed(p)

\* C28: Create does not compensate. A fresh Create that fails at EnsureConfig
\* leaves the resource definition with its volumes and no configuration object;
\* one that fails later (inside Start) leaves the definition and the
\* configuration object, attached once AttachConfig has succeeded (as it has on
\* a timeout of the wait). A Create repeated with the same request after such
\* a failure, no call failing, returns success without any mutating call.
C28_NoCompensation ==
    \A p \in SeqProcs :
        /\ (FreshCreateFailed(p) /\ LastCall(p) = "EnsureConfig") =>
               EnsuredVolumesDefined(p) /\ ~configs[Me(p)].some
        /\ (FreshCreateFailed(p) /\ IssuedBeforeLast(p, "EnsureConfig")) =>
               /\ EnsuredVolumesDefined(p)
               /\ configs[Me(p)].some
               /\ IssuedBeforeLast(p, "AttachConfig") => configs[Me(p)].attached
               /\ out[p] = "timeout" => configs[Me(p)].attached
        /\ (Done(p) /\ RepeatsFailedCreate(p) /\ NoFaultSince(p)) =>
               /\ out[p] = "ok" /\ Len(ret[p]) = 1
               /\ NoMutatingCall(p)

\* a Create repeated after the wait of its Start had timed out returned success
C28_Reached ==
    \E p \in SeqProcs :
        /\ Done(p) /\ RepeatsFailedCreate(p) /\ last[p].out = "timeout"
        /\ out[p] = "ok" /\ configs[Me(p)].attached
\* a fresh Create has failed at EnsureConfig
C28_PersistFailureReached ==
    \E p \in SeqProcs : FreshCreateFailed(p) /\ LastCall(p) = "EnsureConfig"

\* C27: with operations executing one at a time and any external call failing,
\* in every state (inside Create and Delete and after failed operations too)
\* an identity that has an HA Configuration Object has its resource definition
C27_ConfigImpliesDefinition ==
    \A t \in Targets : configs[t].some => rds[t.name].exists

\* a failed operation has left the configuration object with its definition,
\* and a Delete stands between the removal of the object and of the definition
C27_Reached ==
    \E p \in SeqProcs :
        /\ pc[p] = "Delete.wait" /\ ~configs[Me(p)].some /\ rds[tgt[p].name].exists
        /\ last[p].op = "Create" /\ last[p].tgt = tgt[p] /\ last[p].out \in ErrorOutcomes
\* a Create stands between EnsureResource and EnsureConfig
C27_InsideCreateReached ==
    \E p \in SeqProcs :
        pc[p] = "Create.ensureCfg" /\ ~configs[Me(p)].some /\ rds[tgt[p].name].exists

\* no caller has invoked Delete
NoDeleteInvoked == \A p \in SeqProcs : op[p] # "Delete" /\ last[p].op # "Delete"
\* the resource definition and the configuration object of t hold volume 0
HoldsClusterPrivateVolume(t) ==
    /\ \E v \in rds[t.name].vols : v.Number = 0
    /\ \E i \in DOMAIN configs[t].vols : configs[t].vols[i] = 0

\* C25: from a successful Create until Delete is invoked, after any AddVolume,
\* DeleteVolume, Start and Stop with any volume number, the resource definition
\* and the persisted configuration object both hold volume number 0
C25_ClusterPrivateVolumePresent ==
    \A t \in Targets :
        (configs[t].some /\ NoDeleteInvoked) => HoldsClusterPrivateVolume(t)

\* the same for the NFS exports alone
C25_NFSVolumePresent ==
    \A t \in Targets :
        (t.kind = "nfs" /\ configs[t].some /\ NoDeleteInvoked) => HoldsClusterPrivateVolume(t)

Running(p) == pc[p] \notin {"idle", "done"}

\* C24: every invoked Start, Stop, Delete and Create returns: its wait ends at
\* a true poll, at a failed poll or at the deadline, also when the awaited
\* in-use condition never becomes true
C24_Terminates ==
    \A p \in SeqProcs : (Running(p) /\ op[p] \in WaitingOps) ~> Done(p)

\* C24, the way a wait ends: a failed poll is the last call of the operation
\* and fails it, and a timeout is returned only from a wait that saw no true poll
C24_WaitEnds ==
    \A p \in SeqProcs :
        /\ Issued(p, "Poll:error") => (Done(p) /\ out[p] = "backend" /\ LastCall(p) = "Poll:error")
        /\ (Done(p) /\ out[p] = "timeout") => LastCall(p) # "Poll:true"

\* a Create has returned from a wait that timed out, its resource in use nowhere
C24_Reached ==
    \E p \in SeqProcs :
        /\ Done(p) /\ out[p] = "timeout" /\ op[p] = "Create"
        /\ ~inUse[tgt[p].name] /\ configs[Me(p)].attached
\* so have a Stop, a Delete and a Start
C24_StopTimeoutReached ==
    \E p \in SeqProcs : Done(p) /\ out[p] = "timeout" /\ op[p] = "Stop"
C24_DeleteTimeoutReached ==
    \E p \in SeqProcs : Done(p) /\ out[p] = "timeout" /\ op[p] = "Delete"
C24_StartTimeoutReached ==
    \E p \in SeqProcs : Done(p) /\ out[p] = "timeout" /\ op[p] = "Start"

\* success, absent or error
OutcomeKind(o) == IF o \in ErrorOutcomes THEN "error" ELSE o
\* both reconcilers have run the same operation to its end, no call failing
TwinsDone ==
    /\ Done(1) /\ Done(2) /\ faults = 0
    /\ tgt[1].kind = "nfs" /\ tgt[2].kind = "nvmeof"
    /\ op[1] = op[2] /\ arg[1] = arg[2]
\* the cluster-private volume of a stopped pair is being deleted
DeletesClusterPrivateVolume ==
    /\ op[1] = "DeleteVolume" /\ arg[1] = <<0>>
    /\ Existed(1) /\ loc[1].status.Service # "started"

C26_DeleteVolumeReached ==
    /\ TwinsDone /\ op[1] = "DeleteVolume" /\ arg[1] = <<1>> /\ out[1] = "ok"
    /\ Issued(1, "DeleteVolumeDefinition")

\* callers p and q have both run AddVolume on one identity, for different
\* volume numbers neither of which was defined when its caller invoked
AddedSideBySide(p, q) ==
    /\ p # q /\ op[p] = "AddVolume" /\ op[q] = "AddVolume"
    /\ tgt[p] = tgt[q] /\ tgt[p] \in Targets
    /\ arg[p][1].Number # arg[q][1].Number
    /\ Existed(p) /\ Existed(q)
    /\ arg[p][1].Number \notin DefinedNumbers(p) /\ arg[q][1].Number \notin DefinedNumbers(q)
    /\ Done(p) /\ Done(q)
\* the persisted configuration object lacks a volume the storage layer has
LostUpdate(p) == ConfigVolumes(p) # StoredNumbers(p)

\* C21: AddVolume writes the HA Configuration Object back without a version
\* check. An AddVolume that has reached EnsureConfig is never refused because
\* the object changed since it was read; when two AddVolume calls for different
\* new volume numbers on one identity both return success, both volumes exist
\* at the storage layer and the persisted object holds all volumes or all but
\* one of the two: the write of one caller can undo the other's.
C21_UncheckedWriteBack ==
    \A p \in Procs :
        /\ (op[p] = "AddVolume" /\ Done(p) /\ LastCall(p) = "EnsureConfig") =>
               out[p] \in {"ok", "backend"}
        /\ \A q \in Procs :
               (AddedSideBySide(p, q) /\ out[p] = "ok" /\ out[q] = "ok") =>
                   /\ arg[p][1] \in rds[tgt[p].name].vols
                   /\ arg[q][1] \in rds[tgt[p].name].vols
                   /\ ConfigVolumes(p) \in {StoredNumbers(p),
                                            StoredNumbers(p) \ {arg[p][1].Number},
                                            StoredNumbers(p) \ {arg[q][1].Number}}

\* the lost update: both AddVolume calls on the stopped subsystem returned
\* success and the persisted object lacks one of the two volumes
C21_Reached ==
    \E p, q \in Procs :
        /\ AddedSideBySide(p, q) /\ out[p] = "ok" /\ out[q] = "ok"
        /\ WasStopped(p) /\ WasStopped(q) /\ faults = 0
        /\ arg[p][1] \in rds[tgt[p].name].vols /\ arg[q][1] \in rds[tgt[p].name].vols
        /\ LostUpdate(p) /\ arg[q][1].Number \notin ConfigVolumes(p)

\* the two requests ask for different volume lists
DivergentCreates(p, q) ==
    /\ p # q /\ op[p] = "Create" /\ op[q] = "Create"
    /\ tgt[p] = tgt[q] /\ tgt[p] \in Targets
    /\ arg[p] # arg[q]

\* C22: when two Create invocations for one identity with different
\* configurations run concurrently, under every interleaving of their backend
\* calls the two never both return success
C22_DivergenceRejected ==
    \A p, q \in Procs :
        (DivergentCreates(p, q) /\ Done(p) /\ Done(q)) => ~(out[p] = "ok" /\ out[q] = "ok")

\* the same for requests that give one volume number two sizes
C22_SizeDivergenceRejected ==
    \A p, q \in Procs :
        (DivergentCreates(p, q) /\ Done(p) /\ Done(q) /\ DiffersInSize(arg[p], arg[q]))
            => ~(out[p] = "ok" /\ out[q] = "ok")

\* the configuration objects whose start actions hold the NFS server agent
NFSAgentConfigs == {t \in Targets : configs[t].some /\ configs[t].agent = AgentOf("nfs")}

\* C23: in every reachable state of any run of NFS Create and Delete
\* invocations, interleaved ones included, the HA Config Store holds at most
\* one configuration object with the NFS server agent
C23_SingleNFSAgent == Cardinality(NFSAgentConfigs) <= 1

====
